---- MODULE Spec2Model ----
(***************************************************************************)
(* Flashblocks devnet scripts: the stream reader (FlashblocksStreamReader  *)
(* of scripts/send-transaction.ts) and the transaction timing tools        *)
(* (scripts/send-transaction.ts and scripts/time_fb_txns.ts).              *)
(*                                                                         *)
(* Time is the wall clock Date.now() in milliseconds.  A setTimeout fires  *)
(* at its due time: the clock does not pass an armed timer.  A promise     *)
(* continuation (the code after an await) runs before any other event.     *)
(***************************************************************************)
EXTENDS Integers, Sequences, FiniteSets, TLC

VARIABLES
    now,                \* Date.now()
    \* ---- FlashblocksStreamReader
    args,               \* parsed command line of the stream reader
    runPc,              \* position of run(): init, connecting, listening, done, fatal
    wsState,            \* the WebSocket: none, connecting, open, closing, closed
    tick,               \* the pending setTimeout(tick, 250), if any
    listenResolved,     \* the promise returned by listen() is settled
    resolvedBy,         \* which handler settled it first (history)
    resolvedAt,         \* and when (history)
    framesReceived,
    payloadsReceived,
    decodeCounts,
    blocksSeen,
    payloadTimes,
    blockData,
    startTime,
    endTime,
    lastMessageAt,
    startedAt,          \* listen()'s local startedAt
    durationMs,         \* listen()'s local durationMs
    summaries,          \* number of printSummary() calls
    summaryAt,          \* when the summary was printed (history)
    notices,            \* number of "No payloads received within ..." lines
    sigints,            \* SIGINTs delivered to the handler
    exitCode,           \* the process's exit status, once it has exited
    handled,            \* the payloads handlePayload was called with (history)
    \* ---- the timing tools
    targs,              \* the variant and its configuration
    mainPc,             \* position of main / sendOneTx / waitForReceipt
    i,                  \* main's loop index
    submittedAtMs,      \* sendOneTx's submittedAtMs
    nonce,              \* sendOneTx's nonce
    startMs,            \* waitForReceipt's startMs
    elapsed,            \* waitForReceipt's elapsed
    lastLookupMs,       \* duration of the last receipt lookup (history)
    confirmedAtMs,
    results,            \* main's results
    initialBalance,
    chainPending,       \* the node: the account's pending transaction count
    transfers,          \* the node: transfers it has accepted
    noncesRead,         \* the nonces getTransactionCount returned (history)
    submitted,          \* the nonces handed to the submit call (history)
    lookups,            \* getTransactionReceipt calls completed (history)
    stillWaiting,       \* the "Still waiting for receipt" lines: transaction, elapsed
    warnings,           \* number of "Balance increment mismatch" lines
    sleeps,             \* inter-submission sleeps completed (history)
    report,             \* the statistics main printed, if any
    err,                \* the error that ended the run, if any
    timingExit          \* the process's exit status, once it has exited

streamVars == <<args, runPc, wsState, tick, listenResolved, resolvedBy, resolvedAt,
                framesReceived, payloadsReceived, decodeCounts, blocksSeen,
                payloadTimes, blockData, startTime, endTime, lastMessageAt,
                startedAt, durationMs, summaries, summaryAt, notices, sigints,
                exitCode, handled>>

timingVars == <<targs, mainPc, i, submittedAtMs, nonce, startMs, elapsed,
                lastLookupMs, confirmedAtMs, results, initialBalance, chainPending,
                transfers, noncesRead, submitted, lookups, stillWaiting, warnings,
                sleeps, report, err, timingExit>>

vars == <<now, streamVars, timingVars>>

----------------------------------------------------------------------------
(* Bounds of the model *)

MaxAggFrames == 3       \* frames delivered in an aggregation run
MaxDecodeFrames == 4    \* frames delivered in a decoding run
MaxSessionFrames == 2   \* frames delivered in a session run
MaxRunMs == 1250        \* how long the clock of a session runs
MaxSigints == 1         \* SIGINTs delivered in a session run
MaxSamples == 5         \* samples whose statistics are computed

(* Program constants *)

TickMs == 250           \* setTimeout(tick, 250)

----------------------------------------------------------------------------
(* JavaScript values *)

None == [set |-> FALSE, v |-> 0]
Some(x) == [set |-> TRUE, v |-> x]

\* x ?? d
Coalesce(x, d) == IF x.set THEN x ELSE Some(d)

\* A JavaScript number: an integer or NaN.
Num(n) == [nan |-> FALSE, v |-> n]
NaN == [nan |-> TRUE, v |-> 0]

MathMax(a, b) ==
    IF a.nan \/ b.nan THEN NaN
    ELSE IF a.v >= b.v THEN a ELSE b

Digits == <<"0", "1", "2", "3", "4", "5", "6", "7", "8", "9",
            "a", "b", "c", "d", "e", "f">>
UpperDigits == <<"0", "1", "2", "3", "4", "5", "6", "7", "8", "9",
                 "A", "B", "C", "D", "E", "F">>

\* The value of character c as a digit of the radix, -1 when it is none.
DigitVal(c, radix) ==
    IF \E j \in 1..radix : Digits[j] = c \/ UpperDigits[j] = c
    THEN (CHOOSE j \in 1..radix : Digits[j] = c \/ UpperDigits[j] = c) - 1
    ELSE -1

RECURSIVE DropWs(_)
DropWs(s) == IF s # <<>> /\ Head(s) = " " THEN DropWs(Tail(s)) ELSE s

RECURSIVE ParseDigits(_, _, _, _)
ParseDigits(s, radix, acc, seen) ==
    IF s # <<>> /\ DigitVal(Head(s), radix) >= 0
    THEN ParseDigits(Tail(s), radix, acc * radix + DigitVal(Head(s), radix), TRUE)
    ELSE IF seen THEN Num(acc) ELSE NaN

\* parseInt(string, radix): leading white space, a sign, for radix 16 an
\* optional 0x, then the longest prefix of digits; NaN when there is none.
parseInt(s, radix) ==
    LET s1 == DropWs(s)
        neg == s1 # <<>> /\ Head(s1) = "-"
        s2 == IF s1 # <<>> /\ Head(s1) \in {"-", "+"} THEN Tail(s1) ELSE s1
        s3 == IF radix = 16 /\ Len(s2) >= 2 /\ s2[1] = "0" /\ s2[2] \in {"x", "X"}
              THEN SubSeq(s2, 3, Len(s2)) ELSE s2
        r == ParseDigits(s3, radix, 0, FALSE)
    IN  IF r.nan THEN NaN ELSE IF neg THEN Num(0 - r.v) ELSE r

startsWith0x(s) == Len(s) >= 2 /\ s[1] = "0" /\ s[2] = "x"

----------------------------------------------------------------------------
(* JSON values, texts and frames *)

Undefined == [t |-> "undefined"]
JNull == [t |-> "null"]
JBool(b) == [t |-> "bool", b |-> b]
JNum(n) == [t |-> "num", n |-> n]
JStr(s) == [t |-> "str", s |-> s]
JArr(items) == [t |-> "arr", items |-> items]

\* A field of a payload: absent (undefined or null), a string (its
\* characters), a number, an array (its length) or anything else.
FAbsent == [k |-> "absent", s |-> <<>>, n |-> 0]
FStr(s) == [k |-> "str", s |-> s, n |-> 0]
FNum(n) == [k |-> "num", s |-> <<>>, n |-> n]
FArr(len) == [k |-> "arr", s |-> <<>>, n |-> len]
FOther == [k |-> "other", s |-> <<>>, n |-> 0]

\* A JSON object read as a FlashblocksPayload: metadata.block_number,
\* diff.transactions and diff.gas_used.
Payload(bn, txs, gas) == [t |-> "obj", bn |-> bn, txs |-> txs, gas |-> gas]

\* A text: whether it is a JSON document, whether it carries surrounding
\* white space, and the value it denotes.
Text(val) == [json |-> TRUE, pad |-> FALSE, val |-> val]
Padded(val) == [json |-> TRUE, pad |-> TRUE, val |-> val]
NotJson == [json |-> FALSE, pad |-> FALSE, val |-> Undefined]

\* A buffer: its leading bytes (1f8b, 78 or other), the format its bytes
\* are in (text, gzip, zlib, brotli or junk) and the text they hold.
Buf(magic, fmt, text) == [magic |-> magic, fmt |-> fmt, text |-> text]

Frame(data, isBinary) == [data |-> data, isBinary |-> isBinary]

trim(text) == [text EXCEPT !.pad = FALSE]

\* buf.toString("utf8"): the bytes of a compressed or junk buffer are no JSON.
toUtf8(buf) == IF buf.fmt = "text" THEN buf.text ELSE NotJson

safeJsonParse(text) == IF text.json THEN text.val ELSE Undefined

\* tryDecodeJsonFromBuffer returning the text whether it parses or not.
tryDecodeAnyText(buf) == trim(toUtf8(buf))

\* tryDecodeJsonFromBuffer taking a falsy JSON value for no JSON.
tryDecodeTruthyJson(buf) ==
    LET text == trim(toUtf8(buf))
        v == safeJsonParse(text)
    IN  IF v = Undefined \/ v = JNull \/ v = JBool(FALSE) \/ v = JNum(0)
           \/ v = JStr("")
        THEN Undefined
        ELSE text

tryDecodeJsonFromBuffer(buf) ==
    LET text == trim(toUtf8(buf))
    IN  IF safeJsonParse(text) = Undefined THEN Undefined ELSE text

\* Decompress knowing gzip only.
DecompressGzipOnly(buf, codec) ==
    IF buf.fmt = codec /\ codec = "gzip" THEN Buf("other", "text", buf.text)
    ELSE Undefined

\* gunzipSync / inflateSync / brotliDecompressSync: the decompressed buffer,
\* or Undefined where the call throws.
Decompress(buf, codec) ==
    IF buf.fmt = codec THEN Buf("other", "text", buf.text) ELSE Undefined

TryCodec(buf, codec) ==
    LET out == Decompress(buf, codec)
    IN  IF out = Undefined THEN Undefined ELSE tryDecodeJsonFromBuffer(out)

\* tryDecompressAndDecodeJson trying Brotli only where no magic byte matched.
tryDecompressNoFallback(buf) ==
    IF buf.magic = "1f8b" THEN
        IF TryCodec(buf, "gzip") = Undefined THEN Undefined
        ELSE [jsonText |-> TryCodec(buf, "gzip"), method |-> "gzip"]
    ELSE IF buf.magic = "78" THEN
        IF TryCodec(buf, "zlib") = Undefined THEN Undefined
        ELSE [jsonText |-> TryCodec(buf, "zlib"), method |-> "zlib"]
    ELSE IF TryCodec(buf, "brotli") = Undefined THEN Undefined
    ELSE [jsonText |-> TryCodec(buf, "brotli"), method |-> "brotli"]

tryDecompressAndDecodeJson(buf) ==
    LET gz == IF buf.magic = "1f8b" THEN TryCodec(buf, "gzip") ELSE Undefined
        zl == IF buf.magic = "78" THEN TryCodec(buf, "zlib") ELSE Undefined
        br == TryCodec(buf, "brotli")
    IN  IF gz # Undefined THEN [jsonText |-> gz, method |-> "gzip"]
        ELSE IF zl # Undefined THEN [jsonText |-> zl, method |-> "zlib"]
        ELSE IF br # Undefined THEN [jsonText |-> br, method |-> "brotli"]
        ELSE Undefined

\* decodeWsFrameToJsonText decompressing text frames as well.
decodeAnyFrameToJsonText(data, isBinary) ==
    IF tryDecodeJsonFromBuffer(data) # Undefined
    THEN [jsonText |-> tryDecodeJsonFromBuffer(data), method |-> "utf8-json"]
    ELSE tryDecompressAndDecodeJson(data)

decodeWsFrameToJsonText(data, isBinary) ==
    LET direct == tryDecodeJsonFromBuffer(data)
    IN  IF direct # Undefined THEN [jsonText |-> direct, method |-> "utf8-json"]
        ELSE IF isBinary THEN tryDecompressAndDecodeJson(data)
        ELSE Undefined

isObject(v) == v.t = "obj"

\* JavaScript truthiness of a parsed JSON value.
Truthy(v) ==
    CASE v.t = "undefined" -> FALSE
      [] v.t = "null" -> FALSE
      [] v.t = "bool" -> v.b
      [] v.t = "num" -> v.n # 0
      [] v.t = "str" -> v.s # ""
      [] OTHER -> TRUE

----------------------------------------------------------------------------
(* handlePayload *)

\* blockNumberOf with block 0 for a payload without a numeric block number.
blockNumberOrZero(p) == IF p.bn.k = "num" THEN Some(p.bn.n) ELSE Some(0)

blockNumberOf(p) == IF p.bn.k = "num" THEN Some(p.bn.n) ELSE None

transactionsLength(p) == IF p.txs.k = "arr" THEN p.txs.n ELSE 0

gasUsedOf(p) ==
    LET gasUsedHex == IF p.gas.k = "absent" THEN FStr(<<"0", "x", "0">>) ELSE p.gas
    IN  IF gasUsedHex.k = "str"
        THEN IF startsWith0x(gasUsedHex.s)
             THEN parseInt(gasUsedHex.s, 16)
             ELSE parseInt(gasUsedHex.s, 10)
        ELSE IF gasUsedHex.k = "num" THEN Num(gasUsedHex.n)
        ELSE Num(0)

NewBlock == [payloadCount |-> 0, txCount |-> 0, gasUsed |-> Num(0)]

\* foldBlock with the transaction count max-reduced like the gas.
foldBlockMaxTx(bd, txCount, gasUsed) ==
    [payloadCount |-> bd.payloadCount + 1,
     txCount |-> IF bd.txCount >= txCount THEN bd.txCount ELSE txCount,
     gasUsed |-> MathMax(bd.gasUsed, gasUsed)]

\* foldBlock keeping the gas of the last payload instead of the maximum.
foldBlockLastGas(bd, txCount, gasUsed) ==
    [payloadCount |-> bd.payloadCount + 1,
     txCount |-> bd.txCount + txCount,
     gasUsed |-> gasUsed]

\* bd.payloadCount++; bd.txCount += txCount; bd.gasUsed = Math.max(...)
foldBlock(bd, txCount, gasUsed) ==
    [payloadCount |-> bd.payloadCount + 1,
     txCount |-> bd.txCount + txCount,
     gasUsed |-> MathMax(bd.gasUsed, gasUsed)]

\* The reader's accumulators as one record, for handlePayload to fold over.
AggState ==
    [payloadsReceived |-> payloadsReceived, payloadTimes |-> payloadTimes,
     blocksSeen |-> blocksSeen, blockData |-> blockData, handled |-> handled]

\* handlePayload returning before it counts a payload without block number.
handlePayloadNumberedOnly(st, p, t) ==
    LET blockNumber == blockNumberOf(p)
        b == blockNumber.v
        old == IF b \in DOMAIN st.blockData THEN st.blockData[b] ELSE NewBlock
        new == foldBlock(old, transactionsLength(p), gasUsedOf(p))
    IN  IF ~blockNumber.set THEN [st EXCEPT !.handled = Append(@, p)]
        ELSE [payloadsReceived |-> st.payloadsReceived + 1,
              payloadTimes |-> Append(st.payloadTimes, t),
              blocksSeen |-> st.blocksSeen \cup {b},
              blockData |-> [x \in DOMAIN st.blockData \cup {b} |->
                                IF x = b THEN new ELSE st.blockData[x]],
              handled |-> Append(st.handled, p)]

handlePayload(st, p, t) ==
    LET blockNumber == blockNumberOf(p)
        b == blockNumber.v
        old == IF b \in DOMAIN st.blockData THEN st.blockData[b] ELSE NewBlock
        new == foldBlock(old, transactionsLength(p), gasUsedOf(p))
    IN  [payloadsReceived |-> st.payloadsReceived + 1,
         payloadTimes |-> Append(st.payloadTimes, t),
         blocksSeen |-> IF blockNumber.set THEN st.blocksSeen \cup {b}
                        ELSE st.blocksSeen,
         blockData |-> IF blockNumber.set
                       THEN [x \in DOMAIN st.blockData \cup {b} |->
                                IF x = b THEN new ELSE st.blockData[x]]
                       ELSE st.blockData,
         handled |-> Append(st.handled, p)]

\* handlePayloads folding the first payload of a frame only.
handleFirstPayload(st, items, t) ==
    IF items = <<>> THEN st ELSE handlePayload(st, Head(items), t)

RECURSIVE handlePayloads(_, _, _)
handlePayloads(st, items, t) ==
    IF items = <<>> THEN st
    ELSE handlePayloads(handlePayload(st, Head(items), t), Tail(items), t)

----------------------------------------------------------------------------
(* Inputs *)

Blk(n) == FNum(n)

P1 == Payload(Blk(100), FArr(2), FStr(<<"0", "x", "6", "4">>))
P2 == Payload(Blk(100), FArr(0), FStr(<<"0", "x", "3", "2">>))
P3 == Payload(Blk(100), FArr(3), FStr(<<"0", "x", "c", "8">>))
P4 == Payload(Blk(101), FArr(1), FNum(150))
P5 == Payload(Blk(101), FAbsent, FStr(<<"3", "0", "0">>))
P6 == Payload(FAbsent, FArr(1), FStr(<<"0", "x", "1", "0">>))
P7 == Payload(Blk(100), FOther, FStr(<<"a", "b", "c">>))
P8 == Payload(Blk(101), FArr(2), FAbsent)
P9 == Payload(FStr(<<"1", "0", "0">>), FArr(1), FOther)
P10 == Payload(Blk(101), FArr(1), FStr(<<"0", "x">>))
P11 == Payload(Blk(100), FArr(1), FStr(<<"1", "2", "p", "x">>))

Payloads == {P1, P2, P3, P4, P5, P6, P7, P8, P9, P10, P11}

TextFrame(val) == Frame(Buf("other", "text", Text(val)), FALSE)

\* The frames of the aggregation runs: every payload as a text frame,
\* batches, and JSON documents that are no payload.
AggFrames ==
    {TextFrame(p) : p \in Payloads}
    \cup {TextFrame(JArr(<<P1, P2, P3>>)),
          TextFrame(JArr(<<P4, JNull, JNum(1), JArr(<<P1>>), P5>>)),
          TextFrame(JArr(<<>>)), TextFrame(JNull), TextFrame(JStr("x"))}

\* The frame that carries the JSON document val in the format a decode
\* method is named after.
Encoded(val, method) ==
    CASE method = "utf8-json" -> TextFrame(val)
      [] method = "gzip" -> Frame(Buf("1f8b", "gzip", Text(val)), TRUE)
      [] method = "zlib" -> Frame(Buf("78", "zlib", Text(val)), TRUE)
      [] method = "brotli" -> Frame(Buf("other", "brotli", Text(val)), TRUE)

Methods == {"utf8-json", "gzip", "zlib", "brotli"}

\* The JSON documents sent in every format: a payload, a batch, a payload
\* without block number and a document that is no payload.
Contents == {P1, JArr(<<P1, JNum(1), P6>>), P6, JNull}

\* The frames of the decoding runs: one payload in every encoding, JSON
\* documents that are no payload, and frames no decoder accepts.
DecodeFrames ==
         {Encoded(val, m) : val \in Contents, m \in Methods} \cup
         {TextFrame(P1), TextFrame(JArr(<<P1, JNum(1), P6>>)),
          TextFrame(JArr(<<>>)),
          TextFrame(JNull), TextFrame(JNum(0)), TextFrame(JStr("")),
          TextFrame(JBool(FALSE)), TextFrame(JBool(TRUE)),
          Frame(Buf("other", "text", Padded(P1)), TRUE),
          Frame(Buf("1f8b", "gzip", Text(P1)), TRUE),
          Frame(Buf("78", "zlib", Text(P1)), TRUE),
          Frame(Buf("other", "zlib", Text(P1)), TRUE),
          Frame(Buf("other", "brotli", Text(P1)), TRUE),
          Frame(Buf("1f8b", "brotli", Text(P1)), TRUE),
          Frame(Buf("1f8b", "gzip", Text(P1)), FALSE),
          Frame(Buf("1f8b", "gzip", NotJson), TRUE),
          Frame(Buf("78", "text", NotJson), TRUE),
          Frame(Buf("other", "junk", NotJson), TRUE),
          Frame(Buf("other", "text", NotJson), FALSE),
          Frame(Buf("other", "text", Text(P3)), TRUE),
          Frame(Buf("1f8b", "brotli", Text(P2)), TRUE),
          Frame(Buf("78", "brotli", Text(P2)), TRUE),
          Frame(Buf("78", "zlib", Text(P1)), FALSE),
          Frame(Buf("other", "brotli", Text(P1)), FALSE),
          TextFrame(JStr("x")), TextFrame(JArr(<<JNum(1), JNull, JArr(<<P1>>)>>))}

\* The frames of the session runs: one payload, one JSON document that is
\* no payload, one undecodable frame.
SessionFrames ==
    {TextFrame(P1), TextFrame(JNull), Frame(Buf("other", "junk", NotJson), TRUE)}

\* --duration (in milliseconds, absent when not given) and --timeout-ms
StreamArgs ==
    {[durationSec |-> d, timeoutMs |-> t] :
        d \in {None, Some(100), Some(250)}, t \in {300, 500}}

ClockStarts == {1000}

----------------------------------------------------------------------------
(* The stream reader *)

Exited == exitCode.set

\* run() is suspended at `await this.listen()` and the promise is settled:
\* its continuation runs before any other event.
PendingMicrotask == runPc = "listening" /\ listenResolved

\* listen() has registered the message, close and SIGINT handlers.
HandlersInstalled == runPc \in {"listening", "done"}

StreamInit(A) ==
    /\ args \in A
    /\ runPc = "init"
    /\ wsState = "none"
    /\ tick = None
    /\ listenResolved = FALSE
    /\ resolvedBy = "none"
    /\ resolvedAt = None
    /\ framesReceived = 0
    /\ payloadsReceived = 0
    /\ decodeCounts = [m \in {"utf8-json", "gzip", "zlib", "brotli"} |-> 0]
    /\ blocksSeen = {}
    /\ payloadTimes = <<>>
    /\ blockData = <<>>
    /\ startTime = None
    /\ endTime = None
    /\ lastMessageAt = None
    /\ startedAt = 0
    /\ durationMs = None
    /\ summaries = 0
    /\ summaryAt = None
    /\ notices = 0
    /\ sigints = 0
    /\ exitCode = None
    /\ handled = <<>>

aggVars == <<payloadsReceived, payloadTimes, blocksSeen, blockData, handled>>
statVars == <<framesReceived, decodeCounts, aggVars>>

\* ws.close()
wsClosed(s) == IF s = "open" THEN "closing" ELSE s

\* resolve() of listen()'s promise
Resolve(by) ==
    /\ listenResolved' = TRUE
    /\ resolvedBy' = IF listenResolved THEN resolvedBy ELSE by
    /\ resolvedAt' = IF listenResolved THEN resolvedAt ELSE Some(now)

\* run(): this.startTime = nowMs(); connect() creates the socket.
RunStart ==
    /\ runPc = "init"
    /\ startTime' = Some(now)
    /\ wsState' = "connecting"
    /\ runPc' = "connecting"
    /\ UNCHANGED <<timingVars, now, args, tick, listenResolved, resolvedBy, resolvedAt, statVars,
                   endTime, lastMessageAt, startedAt, durationMs, summaries,
                   summaryAt, notices, sigints, exitCode>>

\* The socket opens: connect() resolves and run() enters listen(), which
\* arms the first tick and registers its handlers.
ConnectOpen ==
    /\ runPc = "connecting"
    /\ wsState = "connecting"
    /\ wsState' = "open"
    /\ durationMs' = IF args.durationSec.set THEN Some(args.durationSec.v) ELSE None
    /\ startedAt' = now
    /\ lastMessageAt' = Some(now)
    /\ tick' = Some(now + TickMs)
    /\ runPc' = "listening"
    /\ UNCHANGED <<timingVars, now, args, listenResolved, resolvedBy, resolvedAt, statVars,
                   startTime, endTime, summaries, summaryAt, notices, sigints,
                   exitCode>>

\* ConnectError with the process exiting with status 0.
ConnectErrorExitsZero ==
    /\ runPc = "connecting"
    /\ wsState = "connecting"
    /\ wsState' = "closed"
    /\ runPc' = "fatal"
    /\ exitCode' = Some(0)
    /\ UNCHANGED <<timingVars, now, args, tick, listenResolved, resolvedBy, resolvedAt, statVars,
                   startTime, endTime, lastMessageAt, startedAt, durationMs,
                   summaries, summaryAt, notices, sigints>>

\* The socket fails before it opens: connect() rejects, run() rejects and
\* main().catch exits with status 1.
ConnectError ==
    /\ runPc = "connecting"
    /\ wsState = "connecting"
    /\ wsState' = "closed"
    /\ runPc' = "fatal"
    /\ exitCode' = Some(1)
    /\ UNCHANGED <<timingVars, now, args, tick, listenResolved, resolvedBy, resolvedAt, statVars,
                   startTime, endTime, lastMessageAt, startedAt, durationMs,
                   summaries, summaryAt, notices, sigints>>

\* The socket fails after it has opened: the error handler of connect()
\* logs it, its reject() has no effect on the settled promise, and the
\* socket goes on to close.
WsError ==
    /\ HandlersInstalled /\ ~Exited /\ ~PendingMicrotask
    /\ wsState = "open"
    /\ wsState' = "closing"
    /\ UNCHANGED <<timingVars, now, args, runPc, tick, listenResolved, resolvedBy,
                   resolvedAt, statVars, startTime, endTime, lastMessageAt, startedAt,
                   durationMs, summaries, summaryAt, notices, sigints, exitCode>>

\* inactiveFor counted from the start of listening.
inactiveSinceStart(t) == t - startedAt

\* this.lastMessageAt ? t - this.lastMessageAt : 0
inactiveFor(t) ==
    IF lastMessageAt.set /\ lastMessageAt.v # 0 THEN t - lastMessageAt.v ELSE 0

\* DurationElapsed with > for >=.
DurationExceeded(ranFor) == durationMs.set /\ ranFor > durationMs.v

\* durationMs !== undefined && ranFor >= durationMs
DurationElapsed(ranFor) == durationMs.set /\ ranFor >= durationMs.v

\* InactivityExpired without the test for payloads.
InactivityExpiredAlways(inactive) == inactive >= args.timeoutMs

\* inactiveFor >= this.args.timeoutMs && this.payloadsReceived === 0
InactivityExpired(inactive) == inactive >= args.timeoutMs /\ payloadsReceived = 0

\* The periodic timer of listen().
Tick ==
    /\ tick.set /\ now >= tick.v
    /\ ~Exited /\ ~PendingMicrotask
    /\ LET t == now
           ranFor == t - startedAt
       IN  IF DurationElapsed(ranFor)
           THEN /\ endTime' = Some(t)
                /\ wsState' = wsClosed(wsState)
                /\ Resolve("duration")
                /\ tick' = None
                /\ UNCHANGED notices
           ELSE IF InactivityExpired(inactiveFor(t))
           THEN /\ notices' = notices + 1
                /\ endTime' = Some(t)
                /\ wsState' = wsClosed(wsState)
                /\ Resolve("inactivity")
                /\ tick' = None
           ELSE /\ tick' = Some(t + TickMs)
                /\ UNCHANGED <<endTime, wsState, listenResolved, resolvedBy,
                               resolvedAt, notices>>
    /\ UNCHANGED <<timingVars, now, args, runPc, statVars, startTime, lastMessageAt, startedAt,
                   durationMs, summaries, summaryAt, sigints, exitCode>>

\* OnMessage with the inactivity clock restarted by payloads only.
OnMessageQuietUnlessPayload(f) ==
    /\ HandlersInstalled /\ ~Exited /\ ~PendingMicrotask
    /\ wsState \in {"open", "closing"}
    /\ framesReceived' = framesReceived + 1
    /\ LET decoded == decodeWsFrameToJsonText(f.data, f.isBinary)
           parsed == IF decoded = Undefined THEN Undefined
                     ELSE safeJsonParse(decoded.jsonText)
           items == IF ~Truthy(parsed) THEN <<>>
                    ELSE IF parsed.t = "arr" THEN SelectSeq(parsed.items, isObject)
                    ELSE IF isObject(parsed) THEN <<parsed>>
                    ELSE <<>>
           st == handlePayloads(AggState, items, now)
       IN  /\ decodeCounts' = IF decoded = Undefined THEN decodeCounts
                              ELSE [decodeCounts EXCEPT ![decoded.method] = @ + 1]
           /\ payloadsReceived' = st.payloadsReceived
           /\ payloadTimes' = st.payloadTimes
           /\ blocksSeen' = st.blocksSeen
           /\ blockData' = st.blockData
           /\ handled' = st.handled
    /\ lastMessageAt' = IF payloadsReceived' > payloadsReceived THEN Some(now)
                      ELSE lastMessageAt
    /\ UNCHANGED <<timingVars, now, args, runPc, wsState, tick, listenResolved, resolvedBy,
                   resolvedAt, startTime, endTime, startedAt, durationMs, summaries,
                   summaryAt, notices, sigints, exitCode>>

\* ws.on("message"): one inbound frame.
OnMessage(f) ==
    /\ HandlersInstalled /\ ~Exited /\ ~PendingMicrotask
    /\ wsState \in {"open", "closing"}
    /\ lastMessageAt' = Some(now)
    /\ framesReceived' = framesReceived + 1
    /\ LET decoded == decodeWsFrameToJsonText(f.data, f.isBinary)
           parsed == IF decoded = Undefined THEN Undefined
                     ELSE safeJsonParse(decoded.jsonText)
           items == IF ~Truthy(parsed) THEN <<>>
                    ELSE IF parsed.t = "arr" THEN SelectSeq(parsed.items, isObject)
                    ELSE IF isObject(parsed) THEN <<parsed>>
                    ELSE <<>>
           st == handlePayloads(AggState, items, now)
       IN  /\ decodeCounts' = IF decoded = Undefined THEN decodeCounts
                              ELSE [decodeCounts EXCEPT ![decoded.method] = @ + 1]
           /\ payloadsReceived' = st.payloadsReceived
           /\ payloadTimes' = st.payloadTimes
           /\ blocksSeen' = st.blocksSeen
           /\ blockData' = st.blockData
           /\ handled' = st.handled
    /\ UNCHANGED <<timingVars, now, args, runPc, wsState, tick, listenResolved, resolvedBy,
                   resolvedAt, startTime, endTime, startedAt, durationMs, summaries,
                   summaryAt, notices, sigints, exitCode>>

\* ws.on("close"): the socket has closed, on the remote's initiative or
\* after ws.close().
WsClose ==
    /\ HandlersInstalled /\ ~Exited /\ ~PendingMicrotask
    /\ wsState \in {"open", "closing"}
    /\ wsState' = "closed"
    /\ endTime' = Coalesce(endTime, now)
    /\ Resolve("close")
    /\ UNCHANGED <<timingVars, now, args, runPc, tick, statVars, startTime, lastMessageAt,
                   startedAt, durationMs, summaries, summaryAt, notices, sigints,
                   exitCode>>

\* Sigint with the handler printing the summary itself.
SigintPrintsSummary ==
    /\ HandlersInstalled /\ ~Exited /\ ~PendingMicrotask
    /\ sigints' = sigints + 1
    /\ endTime' = Some(now)
    /\ wsState' = wsClosed(wsState)
    /\ Resolve("sigint")
    /\ summaries' = summaries + 1
    /\ UNCHANGED <<timingVars, now, args, runPc, tick, statVars, startTime,
                   lastMessageAt, startedAt, durationMs, summaryAt, notices, exitCode>>

\* process.on("SIGINT")
Sigint ==
    /\ HandlersInstalled /\ ~Exited /\ ~PendingMicrotask
    /\ sigints' = sigints + 1
    /\ endTime' = Some(now)
    /\ wsState' = wsClosed(wsState)
    /\ Resolve("sigint")
    /\ UNCHANGED <<timingVars, now, args, runPc, tick, statVars, startTime, lastMessageAt,
                   startedAt, durationMs, summaries, summaryAt, notices, exitCode>>

\* run() after `await this.listen()`: this.printSummary()
RunAfterListen ==
    /\ PendingMicrotask
    /\ summaries' = summaries + 1
    /\ summaryAt' = Some(now)
    /\ runPc' = "done"
    /\ UNCHANGED <<timingVars, now, args, wsState, tick, listenResolved, resolvedBy, resolvedAt,
                   statVars, startTime, endTime, lastMessageAt, startedAt,
                   durationMs, notices, sigints, exitCode>>

\* The process exits with status 0 once main() has returned and nothing is
\* left to wait for: no armed timer, no open socket.
ProcessExit ==
    /\ runPc = "done" /\ ~Exited
    /\ ~tick.set
    /\ wsState = "closed"
    /\ exitCode' = Some(0)
    /\ UNCHANGED <<timingVars, now, args, runPc, wsState, tick, listenResolved, resolvedBy,
                   resolvedAt, statVars, startTime, endTime, lastMessageAt,
                   startedAt, durationMs, summaries, summaryAt, notices, sigints>>

TimeSteps == {125}

\* Time passes, up to the next armed timer.
Advance(d) ==
    /\ ~Exited /\ ~PendingMicrotask
    /\ HandlersInstalled
    /\ \A c \in ClockStarts : now + d <= c + MaxRunMs
    /\ tick.set => now + d <= tick.v
    /\ now' = now + d
    /\ UNCHANGED <<streamVars, timingVars>>

----------------------------------------------------------------------------
(* The timing tools: main, sendOneTx and waitForReceipt of                 *)
(* send-transaction.ts (variant "cli") and time_fb_txns.ts (variant "env") *)

\* Durations of the RPC round trips, in milliseconds.
NonceDurations == {20}
SendDurations == {30}
LookupDurations == {0, 150}
BalanceDurations == {10}

\* The account's pending transaction count when the run starts.
NonceStarts == {7}

\* The configurations of the timing runs: single-transaction runs over the
\* poll intervals, and runs of several transactions in both variants.
TimingConfigs ==
    {[variant |-> "cli", txCount |-> 1, intervalMs |-> 0, pollIntervalMs |-> p,
      receiptTimeoutMs |-> 1000, useSendTxnSync |-> FALSE] : p \in {10, 250, 400}}
    \cup
    {[variant |-> "cli", txCount |-> 1, intervalMs |-> 0, pollIntervalMs |-> p,
      receiptTimeoutMs |-> 3000, useSendTxnSync |-> FALSE] : p \in {400, 1500}}
    \cup
    {[variant |-> v, txCount |-> n, intervalMs |-> iv, pollIntervalMs |-> 400,
      receiptTimeoutMs |-> 1000, useSendTxnSync |-> s] :
        v \in {"cli", "env"}, n \in {2, 3}, iv \in {0, 100}, s \in BOOLEAN}

NoError == [set |-> FALSE, kind |-> "none", wrapped |-> FALSE, waited |-> 0]
Error(kind, wrapped, waited) ==
    [set |-> TRUE, kind |-> kind, wrapped |-> wrapped, waited |-> waited]

\* The state of a timing tool when main starts, with a configuration of C.
TimingStart(C) ==
    /\ targs \in C
    /\ mainPc = "start"
    /\ i = 0
    /\ submittedAtMs = 0
    /\ nonce = 0
    /\ startMs = 0
    /\ elapsed = 0
    /\ lastLookupMs = 0
    /\ confirmedAtMs = 0
    /\ results = <<>>
    /\ initialBalance = 0
    /\ chainPending \in NonceStarts
    /\ transfers = 0
    /\ noncesRead = <<>>
    /\ submitted = <<>>
    /\ lookups = 0
    /\ stillWaiting = <<>>
    /\ warnings = 0
    /\ sleeps = 0
    /\ report = None
    /\ err = NoError
    /\ timingExit = None

\* time_fb_txns.ts has no sync mode.
TimingInit ==
    TimingStart({c \in TimingConfigs : c.variant = "cli" \/ ~c.useSendTxnSync})

loopVars == <<i, results, report>>
logVars == <<noncesRead, submitted, lookups, stillWaiting, warnings, sleeps>>
chainVars == <<chainPending, transfers>>
txVars == <<submittedAtMs, nonce, startMs, elapsed, lastLookupMs, confirmedAtMs>>

\* Abort with the error swallowed and the loop going on to the next
\* transaction.
AbortAndContinue(e) ==
    /\ err' = e
    /\ mainPc' = "loop"
    /\ i' = i + 1
    /\ UNCHANGED <<results, report, timingExit>>

\* An error reaches main's catch block (or main().catch): the run ends with
\* process.exit(1); the statistics after the loop are not reached.
Abort(e) ==
    /\ err' = e
    /\ mainPc' = "exited"
    /\ timingExit' = Some(1)
    /\ UNCHANGED loopVars

\* The result of Number(text) on an option's or environment variable's
\* text, or the lack of the text: a finite number in tenths, NaN or an
\* infinity.
RAbsent == [k |-> "absent", t |-> 0]
RNaN == [k |-> "nan", t |-> 0]
RInf == [k |-> "inf", t |-> 0]
RNum(tenths) == [k |-> "num", t |-> tenths]

\* Number.isFinite(n)
isFinite(r) == r.k = "num"

\* Math.trunc(n)
trunc(r) == IF r.t >= 0 THEN r.t \div 10 ELSE 0 - ((0 - r.t) \div 10)

\* clampInt(n, min, max)
clampInt(r, min, max) ==
    IF ~isFinite(r) THEN min
    ELSE LET n == trunc(r)
             lo == IF n > max THEN max ELSE n
         IN  IF lo < min THEN min ELSE lo

\* envInt(name, fallback) of time_fb_txns.ts
envInt(r, fallback) ==
    IF r.k = "absent" THEN RNum(fallback * 10)
    ELSE IF isFinite(r) THEN RNum(trunc(r) * 10)
    ELSE RNum(fallback * 10)

\* One numeric option of the cli variant: the default stays unless the
\* value is finite and positive (or zero where zero is allowed).
cliOption(r, default, min, max, zeroAllowed) ==
    IF r.k = "absent" THEN default
    ELSE IF isFinite(r) /\ (r.t > 0 \/ (zeroAllowed /\ r.t = 0))
         THEN clampInt(RNum(trunc(r) * 10), min, max)
    ELSE default

\* The effective configuration: parseArgs of the cli variant, sendOpts and
\* receiptTimeoutMs of the env variant.
effectiveArgs(a) ==
    IF a.variant = "cli"
    THEN [variant |-> a.variant, useSendTxnSync |-> a.useSendTxnSync,
          missing |-> a.missing, raw |-> a.raw,
          txCount |-> cliOption(a.raw.txCount, 1, 1, 10000, FALSE),
          intervalMs |-> cliOption(a.raw.intervalMs, 0, 0, 60000, TRUE),
          pollIntervalMs |-> cliOption(a.raw.pollIntervalMs, 10, 1, 5000, FALSE),
          receiptTimeoutMs |->
              cliOption(a.raw.receiptTimeoutMs, 60000, 1000, 300000, FALSE)]
    ELSE [variant |-> a.variant, useSendTxnSync |-> a.useSendTxnSync,
          missing |-> a.missing, raw |-> a.raw,
          txCount |-> clampInt(envInt(a.raw.txCount, 1), 1, 10000),
          intervalMs |-> clampInt(envInt(a.raw.intervalMs, 0), 0, 60000),
          pollIntervalMs |-> clampInt(envInt(a.raw.pollIntervalMs, 10), 1, 5000),
          receiptTimeoutMs |->
              clampInt(envInt(a.raw.receiptTimeoutMs, 60000), 1000, 300000)]

\* ParseArgs with main going on without the required variables.
ParseArgsUnchecked ==
    /\ mainPc = "parse"
    /\ targs' = effectiveArgs(targs)
    /\ mainPc' = "start"
    /\ UNCHANGED <<now, streamVars, loopVars, logVars, chainVars, txVars,
                   initialBalance, err, timingExit>>

\* The start of the program: the options or environment variables are
\* read; a missing PRIVATE_KEY, RPC_URL or FLASHBLOCKS_RPC_URL ends the
\* process with status 1 (process.exit(1), or an uncaught Error).
ParseArgs ==
    /\ mainPc = "parse"
    /\ IF targs.missing # {}
       THEN /\ Abort(Error("startup", FALSE, 0))
            /\ UNCHANGED targs
       ELSE /\ targs' = effectiveArgs(targs)
            /\ mainPc' = "start"
            /\ UNCHANGED <<loopVars, err, timingExit>>
    /\ UNCHANGED <<now, streamVars, logVars, chainVars, txVars, initialBalance>>

\* main: the clients are created; the cli variant reads the recipient's
\* initial balance.
MainStart ==
    /\ mainPc = "start"
    /\ mainPc' = IF targs.variant = "cli" THEN "initialBalance" ELSE "loop"
    /\ UNCHANGED <<now, streamVars, targs, loopVars, logVars, chainVars, txVars,
                   initialBalance, err, timingExit>>

\* flashblocksClient.getBalance (pending): the balance the endpoint shows,
\* which reflects every transfer or lags by the last one.
BalanceViews == {b \in {transfers, transfers - 1} : b >= 0}

InitialBalanceDone(d) ==
    /\ mainPc = "initialBalance"
    /\ now' = now + d
    /\ \/ /\ initialBalance' = transfers
          /\ mainPc' = "loop"
          /\ UNCHANGED <<loopVars, err, timingExit>>
       \/ /\ Abort(Error("initialBalance", FALSE, 0))
          /\ UNCHANGED initialBalance
    /\ UNCHANGED <<streamVars, targs, logVars, chainVars, txVars>>

Sum(s) == LET RECURSIVE S(_)
              S(k) == IF k = 0 THEN 0 ELSE s[k] + S(k - 1)
          IN  S(Len(s))

\* SortAsc leaving the samples in the order of collection.
SortNone(s) == s

\* allMs.sort((a, b) => a - b)
RECURSIVE Insert(_, _)
Insert(x, s) ==
    IF s = <<>> THEN <<x>>
    ELSE IF x <= Head(s) THEN <<x>> \o s
    ELSE <<Head(s)>> \o Insert(x, Tail(s))

RECURSIVE SortAsc(_)
SortAsc(s) == IF s = <<>> THEN <<>> ELSE Insert(Head(s), SortAsc(Tail(s)))

\* allMs[k] ?? 0, for a zero-based k
At(s, k) == IF k + 1 \in DOMAIN s THEN s[k + 1] ELSE 0

\* Statistics warning on the average instead of the p90.
StatisticsWarnOnAverage(rs) ==
    LET allMs == SortAsc([k \in DOMAIN rs |-> rs[k].submitToReceiptMs])
        n == Len(allMs)
    IN  [sent |-> Len(rs), sum |-> Sum(allMs), p50 |-> At(allMs, n \div 2),
         p90 |-> At(allMs, (n * 9) \div 10), max |-> At(allMs, n - 1),
         warn |-> Sum(allMs) > 250 * n]

\* The statistics of main: sum and count (for the average), p50, p90, max
\* and whether the p90 warning is printed.
Statistics(rs) ==
    LET allMs == SortAsc([k \in DOMAIN rs |-> rs[k].submitToReceiptMs])
        n == Len(allMs)
        p90 == At(allMs, (n * 9) \div 10)
    IN  [sent |-> Len(rs), sum |-> Sum(allMs), p50 |-> At(allMs, n \div 2),
         p90 |-> p90, max |-> At(allMs, n - 1), warn |-> p90 > 250]

\* The head of main's for loop: the next sendOneTx starts (it notes the
\* submission time and asks for the nonce), or the loop is over and the
\* statistics are printed; main returns and the process exits with 0.
LoopHead ==
    /\ mainPc = "loop"
    /\ IF i < targs.txCount
       THEN /\ submittedAtMs' = now
            /\ mainPc' = "nonce"
            /\ UNCHANGED <<report, timingExit>>
       ELSE /\ report' = Some(Statistics(results))
            /\ mainPc' = "exited"
            /\ timingExit' = Some(0)
            /\ UNCHANGED submittedAtMs
    /\ UNCHANGED <<now, streamVars, targs, i, results, logVars, chainVars, nonce,
                   startMs, elapsed, lastLookupMs, confirmedAtMs, initialBalance, err>>

\* ReadNonce with the nonce read once and kept for the run.
ReadNonceOnce == IF noncesRead = <<>> THEN chainPending ELSE noncesRead[1]

\* rpcPublicClient.getTransactionCount({ blockTag: "pending" })
ReadNonce == chainPending

NonceDone(d) ==
    /\ mainPc = "nonce"
    /\ now' = now + d
    /\ \/ /\ nonce' = ReadNonce
          /\ noncesRead' = Append(noncesRead, ReadNonce)
          /\ mainPc' = "send"
          /\ UNCHANGED <<loopVars, err, timingExit>>
       \/ /\ Abort(Error("nonce", FALSE, 0))
          /\ UNCHANGED <<nonce, noncesRead>>
    /\ UNCHANGED <<streamVars, targs, submitted, lookups, stillWaiting, warnings,
                   sleeps, chainVars, submittedAtMs, startMs, elapsed, lastLookupMs,
                   confirmedAtMs, initialBalance>>

\* The node takes a transaction whose nonce is the account's next one.
Accepts(n) == n = chainPending

\* SendDone with the loop going on without waiting for the receipt.
SendDoneNoWait(d) ==
    /\ mainPc = "send"
    /\ ~targs.useSendTxnSync
    /\ now' = now + d
    /\ submitted' = Append(submitted, nonce)
    /\ \/ /\ Accepts(nonce)
          /\ chainPending' = chainPending + 1
          /\ transfers' = transfers + 1
          /\ mainPc' = "loop"
          /\ i' = i + 1
          /\ UNCHANGED <<results, report, err, timingExit>>
       \/ /\ Abort(Error("send", TRUE, 0))
          /\ UNCHANGED chainVars
    /\ UNCHANGED <<streamVars, targs, noncesRead, lookups, stillWaiting, warnings,
                   sleeps, submittedAtMs, nonce, startMs, elapsed, lastLookupMs,
                   confirmedAtMs, initialBalance>>

\* walletClient.sendTransaction returns: the hash, and waitForReceipt
\* starts (startMs = Date.now()); or the broadcast is rejected.
SendDone(d) ==
    /\ mainPc = "send"
    /\ ~targs.useSendTxnSync
    /\ now' = now + d
    /\ submitted' = Append(submitted, nonce)
    /\ \/ /\ Accepts(nonce)
          /\ chainPending' = chainPending + 1
          /\ transfers' = transfers + 1
          /\ startMs' = now'
          /\ mainPc' = "pollCheck"
          /\ UNCHANGED <<loopVars, err, timingExit>>
       \/ /\ Abort(Error("send", TRUE, 0))
          /\ UNCHANGED <<chainVars, startMs>>
    /\ UNCHANGED <<streamVars, targs, noncesRead, lookups, stillWaiting, warnings,
                   sleeps, submittedAtMs, nonce, elapsed, lastLookupMs,
                   confirmedAtMs, initialBalance>>

\* One result of sendOneTx, as main's loop keeps it.
Result(ms, mode) == [submitToReceiptMs |-> ms, nonce |-> nonce, via |-> mode]

\* AfterTx sleeping after the last transaction as well.
AfterTxAlwaysSleeps(r) ==
    /\ results' = Append(results, r)
    /\ IF targs.intervalMs > 0
       THEN mainPc' = "interval" /\ i' = i
       ELSE mainPc' = "loop" /\ i' = i + 1
    /\ UNCHANGED <<report, err, timingExit>>

\* main's loop body after sendOneTx has returned: results.push(result),
\* then the inter-submission sleep or the next iteration.
AfterTx(r) ==
    /\ results' = Append(results, r)
    /\ IF targs.intervalMs > 0 /\ i + 1 < targs.txCount
       THEN mainPc' = "interval" /\ i' = i
       ELSE mainPc' = "loop" /\ i' = i + 1
    /\ UNCHANGED <<report, err, timingExit>>

\* SendSyncDone with the receipt still polled for after the call.
SendSyncDoneThenPoll(d) ==
    /\ mainPc = "send"
    /\ targs.useSendTxnSync
    /\ now' = now + d
    /\ submitted' = Append(submitted, nonce)
    /\ \/ /\ Accepts(nonce)
          /\ chainPending' = chainPending + 1
          /\ transfers' = transfers + 1
          /\ startMs' = now'
          /\ mainPc' = "pollCheck"
          /\ UNCHANGED <<loopVars, err, timingExit>>
       \/ /\ Abort(Error("send", TRUE, 0))
          /\ UNCHANGED <<chainVars, startMs>>
    /\ UNCHANGED <<streamVars, targs, noncesRead, lookups, stillWaiting, warnings,
                   sleeps, submittedAtMs, nonce, elapsed, lastLookupMs,
                   confirmedAtMs, initialBalance>>

\* walletClient.sendTransactionSync returns the receipt (sync mode), and
\* the recipient's balance is asked for; or the call fails.
SendSyncDone(d) ==
    /\ mainPc = "send"
    /\ targs.useSendTxnSync
    /\ now' = now + d
    /\ submitted' = Append(submitted, nonce)
    /\ \/ /\ Accepts(nonce)
          /\ chainPending' = chainPending + 1
          /\ transfers' = transfers + 1
          /\ confirmedAtMs' = now'
          /\ mainPc' = "balance"
          /\ UNCHANGED <<loopVars, err, timingExit>>
       \/ /\ Abort(Error("send", TRUE, 0))
          /\ UNCHANGED <<chainVars, confirmedAtMs>>
    /\ UNCHANGED <<streamVars, targs, noncesRead, lookups, stillWaiting, warnings,
                   sleeps, submittedAtMs, nonce, startMs, elapsed, lastLookupMs,
                   initialBalance>>

\* Elapsed counted from the submission instead of the poller's start.
ElapsedSinceSubmit == now - submittedAtMs

\* Date.now() - startMs
Elapsed == now - startMs

\* TimedOut allowing one more poll interval.
TimedOutLate(e) == e > targs.receiptTimeoutMs + targs.pollIntervalMs

\* elapsed > timeoutMs
TimedOut(e) == e > targs.receiptTimeoutMs

\* The head of waitForReceipt's loop: the elapsed-time guard, then the
\* receipt lookup is issued.
PollCheck ==
    /\ mainPc = "pollCheck"
    /\ elapsed' = Elapsed
    /\ IF TimedOut(Elapsed)
       THEN Abort(Error("timeout", targs.variant = "cli", Elapsed))
       ELSE /\ mainPc' = "lookup"
            /\ UNCHANGED <<loopVars, err, timingExit>>
    /\ UNCHANGED <<now, streamVars, targs, logVars, chainVars, submittedAtMs, nonce,
                   startMs, lastLookupMs, confirmedAtMs, initialBalance>>

\* StillWaitingDue at every failed lookup.
StillWaitingAlways(e) == e >= 0

\* Math.floor(elapsed / 1000) !== Math.floor((elapsed - pollIntervalMs) / 1000)
StillWaitingDue(e) == e \div 1000 # (e - targs.pollIntervalMs) \div 1000

\* LookupDone with a failed lookup thrown on to the caller.
LookupDoneThrows(d) ==
    /\ mainPc = "lookup"
    /\ now' = now + d
    /\ lookups' = lookups + 1
    /\ lastLookupMs' = d
    /\ \/ /\ confirmedAtMs' = now'
          /\ IF targs.variant = "cli"
             THEN /\ mainPc' = "balance"
                  /\ UNCHANGED <<loopVars, err, timingExit>>
             ELSE AfterTx(Result(now' - submittedAtMs, "poll"))
       \/ /\ Abort(Error("lookup", targs.variant = "cli", 0))
          /\ UNCHANGED confirmedAtMs
    /\ UNCHANGED <<streamVars, targs, noncesRead, submitted, warnings, sleeps,
                   stillWaiting, chainVars, submittedAtMs, nonce, startMs, elapsed,
                   initialBalance>>

\* flashblocksClient.getTransactionReceipt returns the receipt, or throws
\* (no receipt yet, or any other failure): waitForReceipt goes to sleep.
LookupDone(d) ==
    /\ mainPc = "lookup"
    /\ now' = now + d
    /\ lookups' = lookups + 1
    /\ lastLookupMs' = d
    /\ \/ /\ confirmedAtMs' = now'
          /\ IF targs.variant = "cli"
             THEN /\ mainPc' = "balance"
                  /\ UNCHANGED <<loopVars, err, timingExit>>
             ELSE AfterTx(Result(now' - submittedAtMs, "poll"))
          /\ UNCHANGED stillWaiting
       \/ /\ stillWaiting' = IF StillWaitingDue(elapsed)
                             THEN Append(stillWaiting, [tx |-> i, elapsed |-> elapsed])
                             ELSE stillWaiting
          /\ mainPc' = "pollSleep"
          /\ UNCHANGED <<loopVars, err, timingExit, confirmedAtMs>>
    /\ UNCHANGED <<streamVars, targs, noncesRead, submitted, warnings, sleeps,
                   chainVars, submittedAtMs, nonce, startMs, elapsed, initialBalance>>

\* await sleep(pollIntervalMs)
PollSleepDone ==
    /\ mainPc = "pollSleep"
    /\ now' = now + targs.pollIntervalMs
    /\ mainPc' = "pollCheck"
    /\ UNCHANGED <<streamVars, targs, loopVars, logVars, chainVars, txVars,
                   initialBalance, err, timingExit>>

\* Math.abs(actualIncrement - expectedIncrement) > 0.000001, in transfers
Mismatch(balance) == balance - initialBalance # i + 1

\* BalanceDone with a mismatch of the increment thrown as an error.
BalanceDoneStrict(d) ==
    /\ mainPc = "balance"
    /\ now' = now + d
    /\ \/ \E balance \in BalanceViews :
            IF Mismatch(balance)
            THEN /\ warnings' = warnings + 1
                 /\ Abort(Error("mismatch", FALSE, 0))
            ELSE /\ UNCHANGED warnings
                 /\ AfterTx(Result(confirmedAtMs - submittedAtMs,
                                   IF targs.useSendTxnSync THEN "sync" ELSE "poll"))
       \/ /\ Abort(Error("balance", TRUE, 0))
          /\ UNCHANGED warnings
    /\ UNCHANGED <<streamVars, targs, noncesRead, submitted, lookups, stillWaiting,
                   sleeps, chainVars, txVars, initialBalance>>

\* BalanceDone with the balance query outside sendOneTx's try block: its
\* failure reaches main as it is.
BalanceDoneOutsideTry(d) ==
    /\ mainPc = "balance"
    /\ now' = now + d
    /\ \/ \E balance \in BalanceViews :
            /\ warnings' = IF Mismatch(balance) THEN warnings + 1 ELSE warnings
            /\ AfterTx(Result(confirmedAtMs - submittedAtMs,
                              IF targs.useSendTxnSync THEN "sync" ELSE "poll"))
       \/ /\ Abort(Error("balance", FALSE, 0))
          /\ UNCHANGED warnings
    /\ UNCHANGED <<streamVars, targs, noncesRead, submitted, lookups, stillWaiting,
                   sleeps, chainVars, txVars, initialBalance>>

\* The recipient's balance arrives (cli variant): sendOneTx returns and
\* main compares the increment with the expected one; or the query fails
\* inside sendOneTx's try block.
BalanceDone(d) ==
    /\ mainPc = "balance"
    /\ now' = now + d
    /\ \/ \E balance \in BalanceViews :
            /\ warnings' = IF Mismatch(balance) THEN warnings + 1 ELSE warnings
            /\ AfterTx(Result(confirmedAtMs - submittedAtMs,
                              IF targs.useSendTxnSync THEN "sync" ELSE "poll"))
       \/ /\ Abort(Error("balance", TRUE, 0))
          /\ UNCHANGED warnings
    /\ UNCHANGED <<streamVars, targs, noncesRead, submitted, lookups, stillWaiting,
                   sleeps, chainVars, txVars, initialBalance>>

\* await sleep(intervalMs) between two submissions
IntervalDone ==
    /\ mainPc = "interval"
    /\ now' = now + targs.intervalMs
    /\ sleeps' = sleeps + 1
    /\ i' = i + 1
    /\ mainPc' = "loop"
    /\ UNCHANGED <<streamVars, targs, results, report, noncesRead, submitted,
                   lookups, stillWaiting, warnings, chainVars, txVars,
                   initialBalance, err, timingExit>>

\* One call of sendOneTx that succeeds, as a single step: the nonce is
\* read, the transaction sent and its receipt found, ms after the call
\* started; main pushes the result.
SendOneTxReturns(ms) ==
    /\ mainPc = "nonce"
    /\ targs.variant = "env"
    /\ now' = now + ms
    /\ nonce' = ReadNonce
    /\ noncesRead' = Append(noncesRead, ReadNonce)
    /\ submitted' = Append(submitted, ReadNonce)
    /\ chainPending' = chainPending + 1
    /\ transfers' = transfers + 1
    /\ startMs' = now'
    /\ elapsed' = 0
    /\ lookups' = lookups + 1
    /\ lastLookupMs' = 0
    /\ confirmedAtMs' = now'
    /\ AfterTx([submitToReceiptMs |-> now' - submittedAtMs, nonce |-> ReadNonce,
                via |-> "poll"])
    /\ UNCHANGED <<streamVars, targs, stillWaiting, warnings, sleeps, submittedAtMs,
                   initialBalance>>

----------------------------------------------------------------------------
(* Specifications *)

\* The other program is not running.
StreamIdle == StreamInit({[durationSec |-> None, timeoutMs |-> 300]})
TimingIdle ==
    /\ TimingInit
    /\ targs.variant = "env" /\ targs.txCount = 2 /\ targs.intervalMs = 0

\* Aggregation: the reader folds frames; everything happens within the
\* first tick period.
AggInit == now \in ClockStarts /\ StreamIdle /\ TimingIdle

AggNext ==
    \/ RunStart
    \/ ConnectOpen
    \/ \E f \in AggFrames : framesReceived < MaxAggFrames /\ OnMessage(f)
    \/ WsClose
    \/ RunAfterListen

AggSpec == AggInit /\ [][AggNext]_vars

\* Decoding: as aggregation, over frames in every encoding.
DecodeNext ==
    \/ RunStart
    \/ ConnectOpen
    \/ \E f \in DecodeFrames : framesReceived < MaxDecodeFrames /\ OnMessage(f)
    \/ WsClose
    \/ RunAfterListen

DecodeSpec == AggInit /\ [][DecodeNext]_vars

\* Session: the connection's life and the run's termination, in time.
SessionInit == now \in ClockStarts /\ StreamInit(StreamArgs) /\ TimingIdle

SessionNext ==
    \/ RunStart
    \/ ConnectOpen
    \/ ConnectError
    \/ Tick
    \/ \E f \in SessionFrames : framesReceived < MaxSessionFrames /\ OnMessage(f)
    \/ WsError
    \/ WsClose
    \/ sigints < MaxSigints /\ Sigint
    \/ RunAfterListen
    \/ ProcessExit
    \/ \E d \in TimeSteps : Advance(d)

SessionSpec == SessionInit /\ [][SessionNext]_vars

\* Timing: one run of a timing tool.
TimingSpecInit == now \in ClockStarts /\ StreamIdle /\ TimingInit

TimingNext ==
    \/ MainStart
    \/ \E d \in BalanceDurations : InitialBalanceDone(d)
    \/ LoopHead
    \/ \E d \in NonceDurations : NonceDone(d)
    \/ \E d \in SendDurations : SendDone(d)
    \/ \E d \in SendDurations : SendSyncDone(d)
    \/ PollCheck
    \/ \E d \in LookupDurations : LookupDone(d)
    \/ PollSleepDone
    \/ \E d \in BalanceDurations : BalanceDone(d)
    \/ IntervalDone

TimingSpec == TimingSpecInit /\ [][TimingNext]_vars

\* Statistics: runs of up to MaxSamples transactions with latencies drawn
\* from SampleMs, each sendOneTx taken as one step.
SampleMs == {10, 20, 30, 50, 90}

StatsConfigs ==
    {[variant |-> "env", txCount |-> n, intervalMs |-> 0, pollIntervalMs |-> 10,
      receiptTimeoutMs |-> 1000, useSendTxnSync |-> FALSE] : n \in 1..MaxSamples}

StatsInit == now \in ClockStarts /\ StreamIdle /\ TimingStart(StatsConfigs)

StatsNext ==
    \/ MainStart
    \/ LoopHead
    \/ \E ms \in SampleMs : SendOneTxReturns(ms)

StatsSpec == StatsInit /\ [][StatsNext]_vars

\* Startup: the program from its first statement to the first nonce read,
\* over the texts of the numeric options and the required variables.
RawCounts == {RAbsent, RNaN, RInf, RNum(-50), RNum(0), RNum(5), RNum(30), RNum(100010)}
RawIntervals == {RAbsent, RNaN, RNum(-10), RNum(0), RNum(1005), RNum(600010)}
RawPolls == {RAbsent, RNaN, RNum(-10), RNum(0), RNum(5), RNum(2500), RNum(50010)}
RawTimeouts == {RAbsent, RInf, RNum(-10), RNum(0), RNum(9990), RNum(20000), RNum(3000010)}
Required == {"PRIVATE_KEY", "RPC_URL", "FLASHBLOCKS_RPC_URL"}

StartupArgs ==
    {[variant |-> v, useSendTxnSync |-> FALSE, missing |-> m,
      raw |-> [txCount |-> c, intervalMs |-> iv, pollIntervalMs |-> p,
               receiptTimeoutMs |-> t]] :
        v \in {"cli", "env"}, m \in {{}} \cup {{x} : x \in Required},
        c \in RawCounts, iv \in RawIntervals, p \in RawPolls, t \in RawTimeouts}

StartupInit ==
    /\ now \in ClockStarts /\ StreamIdle
    /\ targs \in StartupArgs
    /\ mainPc = "parse"
    /\ i = 0 /\ submittedAtMs = 0 /\ nonce = 0 /\ startMs = 0 /\ elapsed = 0
    /\ lastLookupMs = 0 /\ confirmedAtMs = 0 /\ results = <<>>
    /\ initialBalance = 0 /\ chainPending \in NonceStarts /\ transfers = 0
    /\ noncesRead = <<>> /\ submitted = <<>> /\ lookups = 0 /\ stillWaiting = <<>>
    /\ warnings = 0 /\ sleeps = 0 /\ report = None /\ err = NoError
    /\ timingExit = None

StartupNext ==
    \/ ParseArgs
    \/ MainStart
    \/ \E d \in BalanceDurations : InitialBalanceDone(d)
    \/ LoopHead
    \/ \E d \in NonceDurations : NonceDone(d)

StartupSpec == StartupInit /\ [][StartupNext]_vars

----------------------------------------------------------------------------
(* Properties *)

\* The handled payloads of block b, by their position in the run.
OfBlock(b) == {k \in DOMAIN handled : blockNumberOf(handled[k]) = Some(b)}

SetMax(S) == CHOOSE x \in S : \A y \in S : y <= x

\* The gas value of a payload as the aggregation rule reads it: the parsed
\* number, an unparseable value counting as zero.
GasValue(p) == IF gasUsedOf(p).nan THEN 0 ELSE gasUsedOf(p).v

\* The length of a payload's transaction list, a missing or non-array list
\* counting as zero.
TxLength(p) == IF p.txs.k = "arr" THEN p.txs.n ELSE 0

\* The transactions of the handled payloads at the positions in S.
RECURSIVE TxSum(_)
TxSum(S) ==
    IF S = {} THEN 0
    ELSE LET k == CHOOSE x \in S : TRUE
         IN  TxLength(handled[k]) + TxSum(S \ {k})

\* C1: for the payloads of one block number, the Block Aggregate's gasUsed
\* equals the maximum of the payloads' gas values, never their sum.
C1_GasIsMaxOfPayloads ==
    \A b \in DOMAIN blockData :
        blockData[b].gasUsed = Num(SetMax({GasValue(handled[k]) : k \in OfBlock(b)}))

\* The max rule of C1 where every gas value of the block parses: the
\* aggregate is the maximum of the values, and not their sum.
GasIsMaxWhereParseable ==
    \A b \in DOMAIN blockData :
        (\A k \in OfBlock(b) : ~gasUsedOf(handled[k]).nan)
            => blockData[b].gasUsed
                 = Num(SetMax({GasValue(handled[k]) : k \in OfBlock(b)}))

\* C2: for the payloads of one block number, the Block Aggregate's txCount
\* is the sum of the payloads' transaction-list lengths and its
\* payloadCount is the number of those payloads; every block number a
\* payload carried has an aggregate.
C2_TxCountAdditive ==
    /\ \A b \in DOMAIN blockData :
        /\ blockData[b].txCount = TxSum(OfBlock(b))
        /\ blockData[b].payloadCount = Cardinality(OfBlock(b))
    /\ \A k \in DOMAIN handled :
        blockNumberOf(handled[k]).set => blockNumberOf(handled[k]).v \in DOMAIN blockData

\* Three frames for block 100 with 2, 0 and 3 transactions were folded.
C2_Witness ==
    /\ framesReceived = 3
    /\ handled = <<P1, P2, P3>>
    /\ blockData[100].txCount = 5
    /\ blockData[100].payloadCount = 3

Listening == runPc = "listening" /\ ~listenResolved

\* C3: with a duration D the session leaves Listening at the first tick at
\* which it has run for D or more, less than one tick period after D,
\* whatever frames arrive, and the summary is printed at that moment.
C3_DurationEndsRun ==
    /\ (Listening /\ durationMs.set) => now - startedAt < durationMs.v + TickMs
    /\ resolvedBy = "duration" =>
        /\ durationMs.set
        /\ resolvedAt.v - startedAt >= durationMs.v
        /\ resolvedAt.v - startedAt < durationMs.v + TickMs
        /\ runPc = "done" => summaries = 1 /\ summaryAt = resolvedAt

\* The duration ended a run in which frames, a payload among them, arrived.
C3_Witness ==
    /\ resolvedBy = "duration"
    /\ runPc = "done"
    /\ framesReceived >= 2
    /\ payloadsReceived >= 1

\* C4 as stated: with no duration and no payload received, the session
\* is out of Listening less than one tick period after the inactivity
\* timeout, counted from the start of listening, whatever frames arrive.
C4_EndsAfterTimeoutFromStart ==
    (Listening /\ ~durationMs.set /\ payloadsReceived = 0)
        => now - startedAt < args.timeoutMs + TickMs

\* C4 as amended: with no duration and no payload received, the session
\* leaves Listening at the first tick at which no frame of any kind has
\* arrived for the inactivity timeout or longer, less than one tick period
\* after that; every frame, decodable or not, restarts the count.
C4_EndsAfterTimeoutFromLastFrame ==
    /\ []((Listening /\ ~durationMs.set /\ payloadsReceived = 0)
            => now - lastMessageAt.v < args.timeoutMs + TickMs)
    /\ [][(resolvedBy = "none" /\ resolvedBy' = "inactivity")
            => /\ payloadsReceived = 0
               /\ now - lastMessageAt.v >= args.timeoutMs
               /\ now - lastMessageAt.v < args.timeoutMs + TickMs]_vars

\* Inactivity ended a run with no duration after frames without payload
\* had arrived, later than the timeout counted from the start.
C4_Witness ==
    /\ resolvedBy = "inactivity"
    /\ ~durationMs.set
    /\ framesReceived >= 1
    /\ payloadsReceived = 0
    /\ resolvedAt.v - startedAt >= args.timeoutMs + TickMs

\* C5: once a payload has been counted, inactivity never ends Listening and
\* the inactivity notice is never printed: only the duration, a SIGINT or
\* the socket's close settles listen().
C5_NoInactivityAfterPayload ==
    [][payloadsReceived >= 1 =>
          /\ notices' = notices
          /\ (~listenResolved /\ listenResolved')
                => resolvedBy' \in {"duration", "sigint", "close"}]_vars

\* A payload was counted and the feed has been silent for longer than the
\* inactivity timeout and a tick period, and the session still listens.
C5_Witness ==
    /\ Listening
    /\ payloadsReceived >= 1
    /\ now - lastMessageAt.v >= args.timeoutMs + TickMs

\* C6 as stated: the timeout error comes no less than the timeout and no
\* more than the timeout plus one poll interval after waitForReceipt
\* started.
C6_TimeoutWithinPollInterval ==
    err.kind = "timeout" =>
        /\ now - startMs >= targs.receiptTimeoutMs
        /\ now - startMs <= targs.receiptTimeoutMs + targs.pollIntervalMs

\* C6 as amended: the timeout error comes no less than the timeout after
\* waitForReceipt started and no more than the timeout plus one poll
\* interval plus the duration of the last receipt lookup; the error
\* carries that time.
C6_TimeoutWithinPollAndLookup ==
    err.kind = "timeout" =>
        /\ now - startMs >= targs.receiptTimeoutMs
        /\ now - startMs <= targs.receiptTimeoutMs + targs.pollIntervalMs + lastLookupMs
        /\ err.waited = now - startMs

\* A timeout that came later than the timeout plus one poll interval.
C6_Witness ==
    /\ err.kind = "timeout"
    /\ now - startMs > targs.receiptTimeoutMs + targs.pollIntervalMs

\* C7: the summary is printed at most once, it is printed exactly when
\* listen() has settled and run() has resumed, and a run that exits with
\* status 0 has printed it, whichever handlers settled listen().
C7_SummaryOnce ==
    /\ summaries <= 1
    /\ runPc = "done" <=> summaries = 1
    /\ listenResolved => (PendingMicrotask \/ summaries = 1)
    /\ ~listenResolved => summaries = 0
    /\ exitCode = Some(0) => summaries = 1

\* The duration tick, a SIGINT and the socket's close event all fired in
\* one run, and the summary was printed.
C7_Witness ==
    /\ resolvedBy = "duration"
    /\ sigints >= 1
    /\ wsState = "closed"
    /\ summaries = 1

\* C8: once run() has printed the summary, no tick is armed again.
C8_NoTickAfterClosed ==
    [][runPc = "done" => ~(tick'.set /\ tick' # tick)]_vars

\* C9: the nonces read in one run increase by exactly 1 from one
\* submission to the next, every submission uses the nonce just read, and
\* no two submissions use the same nonce.
C9_NoncesIncreaseByOne ==
    /\ \A k \in 1..(Len(noncesRead) - 1) : noncesRead[k + 1] = noncesRead[k] + 1
    /\ Len(submitted) <= Len(noncesRead)
    /\ \A k \in DOMAIN submitted : submitted[k] = noncesRead[k]
    /\ \A j, k \in DOMAIN submitted : j # k => submitted[j] # submitted[k]

\* Three submissions were made in one run.
C9_Witness == Len(noncesRead) = 3 /\ Len(submitted) = 3

\* C10: when a transaction's submission or confirmation fails, the run is
\* over with exit status 1, no later transaction was or will be submitted
\* and no statistics are printed; statistics are printed only by a run in
\* which every transaction was confirmed.
C10_FailureAborts ==
    /\ err.set =>
        /\ mainPc = "exited"
        /\ timingExit = Some(1)
        /\ ~report.set
        /\ Len(submitted) <= i + 1
        /\ Len(results) = i
    /\ report.set => ~err.set /\ Len(results) = targs.txCount
    /\ timingExit = Some(0) => report.set

\* The second of three transactions failed at submission or confirmation.
C10_Witness ==
    /\ err.kind \in {"send", "timeout"}
    /\ i = 1
    /\ targs.txCount = 3

Polling == mainPc \in {"pollCheck", "lookup", "pollSleep"}

\* C11: a receipt lookup that fails raises no error: waitForReceipt
\* sleeps one poll interval and is back at the head of its loop, and the
\* only error that leaves the polling loop is the timeout.
C11_FailedLookupIsAbsorbed ==
    /\ [][mainPc = "lookup" =>
            /\ ~err'.set
            /\ mainPc' \in {"pollSleep", "balance", "loop", "interval"}
            /\ mainPc' = "pollSleep" => confirmedAtMs' = confirmedAtMs]_vars
    /\ [][mainPc = "pollSleep" =>
            /\ mainPc' = "pollCheck"
            /\ now' = now + targs.pollIntervalMs
            /\ ~err'.set]_vars
    /\ [][(Polling /\ err'.set) => (mainPc = "pollCheck" /\ err'.kind = "timeout")]_vars

\* Two lookups of the first transaction failed and the poller polls on.
C11_Witness ==
    /\ i = 0
    /\ lookups >= 2
    /\ mainPc = "lookup"
    /\ ~err.set

\* C12: the error of a receipt timeout carries the elapsed time and is
\* not reported as a failure to send the transaction.
C12_TimeoutIsNotASendFailure ==
    err.kind = "timeout" =>
        /\ ~err.wrapped
        /\ err.waited > targs.receiptTimeoutMs

\* C13: in sync mode the polling loop is never entered and no receipt
\* lookup is issued, every result coming from the blocking submit call;
\* in non-sync mode every result was preceded by a lookup of its own.
C13_SyncBypassesPoller ==
    /\ targs.useSendTxnSync =>
        /\ ~Polling
        /\ lookups = 0
        /\ \A k \in DOMAIN results : results[k].via = "sync"
        /\ mainPc = "balance" => confirmedAtMs = now
    /\ ~targs.useSendTxnSync =>
        /\ lookups >= Len(results)
        /\ mainPc = "balance" => lookups >= Len(results) + 1
        /\ \A k \in DOMAIN results : results[k].via = "poll"

\* A run of three transactions in sync mode has finished.
C13_Witness ==
    /\ targs.useSendTxnSync
    /\ Len(results) = 3
    /\ report.set

\* C14: at most one submitted transaction is without its result, and
\* while a nonce is being read or a transaction is being sent every
\* earlier submission has its result.
C14_OneTransactionAtATime ==
    /\ Len(submitted) <= Len(results) + 1
    /\ Len(noncesRead) <= Len(results) + 1
    /\ mainPc \in {"nonce", "send"} => Len(submitted) = Len(results)
    /\ mainPc = "send" => Len(noncesRead) = Len(results) + 1

\* The nonce of the second transaction is being read after the first
\* transaction's receipt was polled for.
C14_Witness ==
    /\ mainPc = "nonce"
    /\ Len(submitted) = 1
    /\ Len(results) = 1
    /\ lookups >= 1

\* The latencies of the results, in the order of collection.
Samples == [k \in DOMAIN results |-> results[k].submitToReceiptMs]

\* The element at zero-based position k of the ascending order of s.
Ranked(s, k) ==
    CHOOSE v \in {s[j] : j \in DOMAIN s} :
        /\ Cardinality({j \in DOMAIN s : s[j] < v}) <= k
        /\ k < Cardinality({j \in DOMAIN s : s[j] <= v})

\* C15: the statistics of n >= 1 samples are p50 = sorted[floor(n*0.5)],
\* p90 = sorted[floor(n*0.9)] and max = sorted[n-1] of the samples in
\* ascending order, whatever the order of collection; the samples
\* 10, 50, 30, 90, 20 give p50 = 30 and p90 = 90.
C15_PercentilesOfSortedSamples ==
    report.set =>
        LET n == Len(Samples)
        IN  /\ n >= 1
            /\ report.v.sent = n
            /\ report.v.p50 = Ranked(Samples, n \div 2)
            /\ report.v.p90 = Ranked(Samples, (n * 9) \div 10)
            /\ report.v.max = Ranked(Samples, n - 1)
            /\ Samples = <<10, 50, 30, 90, 20>> =>
                  report.v.p50 = 30 /\ report.v.p90 = 90

\* The statistics of the samples 10, 50, 30, 90, 20 were printed.
C15_Witness == report.set /\ Samples = <<10, 50, 30, 90, 20>>

\* The JSON objects a document holds: itself, or the objects among the
\* elements of an array, in order.
IsJsonObject(v) == v.t = "obj"
ObjectsOf(val) ==
    IF val.t = "arr" THEN SelectSeq(val.items, IsJsonObject)
    ELSE IF IsJsonObject(val) THEN <<val>>
    ELSE <<>>

\* The reader after a frame with the document val, decode counters aside.
AfterContent(val) ==
    LET st == handlePayloads(AggState, ObjectsOf(val), now)
    IN  /\ framesReceived' = framesReceived + 1
        /\ lastMessageAt' = Some(now)
        /\ payloadsReceived' = st.payloadsReceived
        /\ payloadTimes' = st.payloadTimes
        /\ blocksSeen' = st.blocksSeen
        /\ blockData' = st.blockData
        /\ handled' = st.handled

\* C16: the same JSON document sent as a UTF-8 text frame, a gzip frame,
\* a zlib frame and a Brotli frame is decoded to the same JSON text (the
\* method named after the format), and the reader's statistics and block
\* aggregates after the frame are the same in the four cases, only the
\* counter of the decode method differing.
C16_EncodingsDecodeAlike ==
    /\ [](\A val \in Contents : \A m \in Methods :
            LET f == Encoded(val, m)
            IN  decodeWsFrameToJsonText(f.data, f.isBinary)
                    = [jsonText |-> Text(val), method |-> m])
    /\ [][\A val \in Contents : \A m \in Methods :
            OnMessage(Encoded(val, m)) =>
                /\ AfterContent(val)
                /\ decodeCounts' = [decodeCounts EXCEPT ![m] = @ + 1]]_vars

\* One payload arrived once in each of the four formats.
C16_Witness ==
    /\ \A m \in Methods : decodeCounts[m] = 1
    /\ handled = <<P1, P1, P1, P1>>
    /\ blockData[100].payloadCount = 4

\* A frame whose bytes hold no JSON document in any format.
NoJson(f) == f.data.fmt = "junk" \/ ~f.data.text.json

\* C17: a frame that holds no JSON document in any known format raises
\* framesReceived by one and leaves payloadsReceived, the decode counters,
\* the block aggregates and the state of the run as they were.
C17_UndecodableFrameOnlyCounted ==
    [][\A f \in DecodeFrames :
          (NoJson(f) /\ OnMessage(f)) =>
              /\ framesReceived' = framesReceived + 1
              /\ UNCHANGED <<decodeCounts, aggVars>>
              /\ UNCHANGED <<runPc, wsState, listenResolved, resolvedBy, summaries,
                             exitCode>>]_vars

\* Two frames without JSON arrived after a payload, and the session
\* still listens.
C17_Witness ==
    /\ framesReceived = 3
    /\ handled = <<P1>>
    /\ decodeCounts["utf8-json"] + decodeCounts["gzip"] + decodeCounts["zlib"]
         + decodeCounts["brotli"] = 1
    /\ blockData[100].payloadCount = 1
    /\ runPc = "listening" /\ ~listenResolved

\* The positions of the handled payloads that carry a numeric block number.
Numbered == {k \in DOMAIN handled : handled[k].bn.k = "num"}

\* C18: a payload without a numeric block number is counted and its
\* arrival time kept, but it has no Block Aggregate, it counts in none and
\* it adds no block to the distinct blocks: the aggregates and the distinct
\* blocks are those of the payloads with a numeric block number.
C18_UnnumberedPayloadOnlyCounted ==
    /\ [](/\ payloadsReceived = Len(handled)
          /\ Len(payloadTimes) = Len(handled)
          /\ DOMAIN blockData = {handled[k].bn.n : k \in Numbered}
          /\ blocksSeen = {handled[k].bn.n : k \in Numbered}
          /\ \A b \in DOMAIN blockData :
                blockData[b].payloadCount
                    = Cardinality({k \in Numbered : handled[k].bn.n = b}))
    /\ [][\A p \in Payloads :
            (p.bn.k # "num" /\ OnMessage(TextFrame(p))) =>
                /\ payloadsReceived' = payloadsReceived + 1
                /\ payloadTimes' = Append(payloadTimes, now)
                /\ UNCHANGED <<blockData, blocksSeen>>]_vars

\* A payload without block number and one whose block number is a string
\* arrived after a payload of block 100.
C18_Witness ==
    /\ handled = <<P1, P6, P9>>
    /\ payloadsReceived = 3
    /\ DOMAIN blockData = {100}

\* C19: a frame holding a JSON array with k objects among its elements
\* raises payloadsReceived by k and framesReceived by 1, the objects being
\* folded in array order and the other elements skipped; a frame holding
\* one JSON object raises both by 1.
C19_BatchFoldsEveryObject ==
    [][\A f \in AggFrames :
          OnMessage(f) =>
              LET val == f.data.text.val
                  objs == ObjectsOf(val)
              IN  /\ framesReceived' = framesReceived + 1
                  /\ payloadsReceived' = payloadsReceived + Len(objs)
                  /\ handled' = handled \o objs
                  /\ IsJsonObject(val) => payloadsReceived' = payloadsReceived + 1]_vars

\* The batch P4, null, 1, [P1], P5 arrived after a single payload.
C19_Witness ==
    /\ framesReceived = 2
    /\ handled = <<P1, P4, P5>>
    /\ payloadsReceived = 3

\* A gas value as the parsing rule reads it: a number, a 0x-prefixed
\* hexadecimal string or a decimal string gives its value, anything else 0.
IsNumeral(s, radix) ==
    s # <<>> /\ \A k \in DOMAIN s : DigitVal(s[k], radix) >= 0
StatedGas(p) ==
    CASE p.gas.k = "num" -> p.gas.n
      [] p.gas.k = "str" /\ startsWith0x(p.gas.s)
            /\ IsNumeral(SubSeq(p.gas.s, 3, Len(p.gas.s)), 16)
         -> parseInt(p.gas.s, 16).v
      [] p.gas.k = "str" /\ IsNumeral(p.gas.s, 10) -> parseInt(p.gas.s, 10).v
      [] OTHER -> 0

\* C20: a payload whose gas value cannot be parsed counts as gas 0: it
\* is counted, and its block's gasUsed is the maximum of the parseable gas
\* values of the block's payloads (0 when there is none).
C20_UnparseableGasIsZero ==
    /\ payloadsReceived = Len(handled)
    /\ \A b \in DOMAIN blockData :
        blockData[b].gasUsed
            = Num(SetMax({0} \cup {StatedGas(handled[k]) : k \in OfBlock(b)}))

\* C21: a connection failure before the socket has opened ends the
\* process with status 1 without listening, without a frame handled and
\* without a summary, and nothing else gives a nonzero status; once the
\* socket has opened, its error or close settles listen() and the run ends
\* with the summary.
C21_ConnectFailureIsFatal ==
    /\ runPc = "fatal" =>
        /\ exitCode = Some(1)
        /\ framesReceived = 0 /\ payloadsReceived = 0
        /\ summaries = 0
        /\ ~tick.set /\ ~listenResolved /\ ~lastMessageAt.set
    /\ (exitCode.set /\ exitCode.v # 0) => runPc = "fatal"
    /\ (HandlersInstalled /\ wsState = "closed") => listenResolved
    /\ runPc = "done" => summaries = 1

\* The socket closed after a payload had arrived, and the summary was
\* printed.
C21_Witness ==
    /\ resolvedBy = "close"
    /\ payloadsReceived >= 1
    /\ runPc = "done"
    /\ summaries = 1

\* C22: with PRIVATE_KEY, RPC_URL or FLASHBLOCKS_RPC_URL missing the tool
\* ends with status 1 at its start: no balance or nonce is read and no
\* transaction is submitted.
C22_MissingVariableIsFatal ==
    targs.missing # {} =>
        /\ mainPc \in {"parse", "exited"}
        /\ mainPc = "exited" => (timingExit = Some(1) /\ err.kind = "startup")
        /\ noncesRead = <<>> /\ submitted = <<>> /\ lookups = 0
        /\ transfers = 0 /\ results = <<>> /\ ~report.set

\* The tool has ended at its start because RPC_URL is missing.
C22_Witness ==
    /\ targs.missing = {"RPC_URL"}
    /\ mainPc = "exited"
    /\ timingExit = Some(1)

\* C23: a step that prints the balance-mismatch warning sets no error and
\* no exit status, pushes the transaction's sample confirmedAtMs -
\* submittedAtMs as it is and goes on with the loop; a run with warnings
\* can end with status 0 and its statistics count every transaction.
C23_MismatchOnlyWarns ==
    /\ [][warnings' > warnings =>
            /\ ~err'.set
            /\ timingExit' = timingExit
            /\ Len(results') = Len(results) + 1
            /\ results'[Len(results')].submitToReceiptMs = confirmedAtMs - submittedAtMs
            /\ SubSeq(results', 1, Len(results)) = results
            /\ mainPc' \in {"loop", "interval"}]_vars
    /\ []((warnings > 0 /\ report.set) =>
            (timingExit = Some(0) /\ report.v.sent = targs.txCount))

\* A run of three transactions with a mismatch warning has ended with
\* status 0.
C23_Witness ==
    /\ warnings >= 1
    /\ targs.txCount = 3
    /\ report.set
    /\ timingExit = Some(0)

C25_GuardBeforeEveryLookup ==
    /\ [](mainPc = "lookup" =>
            (elapsed = now - startMs /\ elapsed <= targs.receiptTimeoutMs))
    /\ [][(mainPc = "pollCheck" /\ now - startMs > targs.receiptTimeoutMs) =>
            (err'.kind = "timeout" /\ lookups' = lookups /\ mainPc' = "exited")]_vars
    /\ [][(mainPc = "pollCheck" /\ now - startMs <= targs.receiptTimeoutMs) =>
            mainPc' = "lookup"]_vars
    /\ [][mainPc = "lookup" => ~err'.set]_vars

\* A receipt that arrived after the timeout had passed, from a lookup
\* started within it, was accepted.
C25_Witness ==
    /\ ~targs.useSendTxnSync
    /\ Len(results) >= 1
    /\ ~err.set
    /\ mainPc \in {"loop", "interval"}
    /\ confirmedAtMs - startMs > targs.receiptTimeoutMs

\* C26: while waitForReceipt waits for one transaction, no two "Still
\* waiting" lines fall into the same whole second of elapsed time,
\* whatever the poll interval and the durations of the lookups.
C26_OneNoticePerSecond ==
    \A j, k \in DOMAIN stillWaiting :
        (j < k /\ stillWaiting[j].tx = stillWaiting[k].tx) =>
            stillWaiting[j].elapsed \div 1000 < stillWaiting[k].elapsed \div 1000

\* Three lines were printed for one transaction, with polls that did not
\* print in between.
C26_Witness ==
    /\ Len(stillWaiting) >= 3
    /\ stillWaiting[1].tx = stillWaiting[3].tx
    /\ lookups > Len(stillWaiting)

\* The bytes of the frame are a JSON document in the given format.
HoldsJson(f, fmt) == f.data.fmt = fmt /\ f.data.text.json

\* The decode method the fixed order of the decoders gives a frame.
ExpectedMethod(f) ==
    IF HoldsJson(f, "text") THEN "utf8-json"
    ELSE IF ~f.isBinary THEN "none"
    ELSE IF f.data.magic = "1f8b" /\ HoldsJson(f, "gzip") THEN "gzip"
    ELSE IF f.data.magic = "78" /\ HoldsJson(f, "zlib") THEN "zlib"
    ELSE IF HoldsJson(f, "brotli") THEN "brotli"
    ELSE "none"

\* C27: the decoders are tried in a fixed order and the first success
\* wins: direct UTF-8 JSON first (also for a binary frame), then for a
\* binary frame gzip behind the prefix 1f 8b, zlib behind the first byte
\* 78, and Brotli last, whether or not a magic byte matched; a decoded
\* frame raises the counter of its method by one and no other counter.
C27_DecodersInFixedOrder ==
    /\ [](\A f \in DecodeFrames :
            LET d == decodeWsFrameToJsonText(f.data, f.isBinary)
            IN  IF ExpectedMethod(f) = "none" THEN d = Undefined
                ELSE d = [jsonText |-> trim(f.data.text),
                          method |-> ExpectedMethod(f)])
    /\ [][\A f \in DecodeFrames :
            OnMessage(f) =>
                decodeCounts' =
                    IF ExpectedMethod(f) = "none" THEN decodeCounts
                    ELSE [decodeCounts EXCEPT ![ExpectedMethod(f)] = @ + 1]]_vars

\* A binary frame of plain JSON was counted as utf8-json, and two Brotli
\* frames that begin with a gzip or zlib magic byte were counted as brotli.
C27_Witness ==
    /\ handled = <<P3, P2, P2>>
    /\ framesReceived = 3
    /\ decodeCounts["utf8-json"] = 1 /\ decodeCounts["brotli"] = 2
    /\ decodeCounts["gzip"] = 0 /\ decodeCounts["zlib"] = 0

\* The frames marked as text: JSON text, and compressed JSON documents.
TextMarkedFrames ==
    {TextFrame(P1), TextFrame(JArr(<<P1, JNum(1), P6>>)), TextFrame(JNull)}
    \cup {Frame(Encoded(val, m).data, FALSE) :
             val \in Contents, m \in {"gzip", "zlib", "brotli"}}

\* Text frames: as decoding, every frame being marked as text.
TextFrameNext ==
    \/ RunStart
    \/ ConnectOpen
    \/ \E f \in TextMarkedFrames : framesReceived < MaxDecodeFrames /\ OnMessage(f)
    \/ WsClose
    \/ RunAfterListen

TextFrameSpec == AggInit /\ [][TextFrameNext]_vars

\* C28: a frame marked as text whose bytes are no JSON text is dropped
\* without decompression, also when the bytes are a gzip, zlib or Brotli
\* compressed JSON document: the frame is counted as received and nothing
\* else of the reader changes.
C28_TextFrameNeverDecompressed ==
    /\ [](\A f \in TextMarkedFrames :
            ~HoldsJson(f, "text") =>
                decodeWsFrameToJsonText(f.data, f.isBinary) = Undefined)
    /\ [][\A f \in TextMarkedFrames :
            (~HoldsJson(f, "text") /\ OnMessage(f)) =>
                /\ framesReceived' = framesReceived + 1
                /\ UNCHANGED <<decodeCounts, aggVars>>]_vars

\* Two text-marked frames of compressed JSON arrived after a JSON text
\* and left no trace but the frame count.
C28_Witness ==
    /\ framesReceived = 3
    /\ handled = <<P1>>
    /\ decodeCounts["utf8-json"] = 1
    /\ decodeCounts["gzip"] + decodeCounts["zlib"] + decodeCounts["brotli"] = 0
    /\ runPc = "listening"

\* The inter-submission sleeps a run has completed after its confirmed
\* transactions: one after each but the last, the one in progress aside.
SleepsDue ==
    IF targs.intervalMs > 0
    THEN (IF Len(results) < targs.txCount THEN Len(results) ELSE targs.txCount - 1)
           - (IF mainPc = "interval" THEN 1 ELSE 0)
    ELSE 0

\* C29: the inter-submission delay is slept only between consecutive
\* submissions: after the confirmation of transaction k and before the
\* nonce read of transaction k+1, never after the last transaction, so
\* that a completed run of N transactions with a positive delay has
\* slept it N-1 times.
C29_DelayOnlyBetweenSubmissions ==
    /\ sleeps = SleepsDue
    /\ mainPc = "interval" =>
          /\ targs.intervalMs > 0
          /\ Len(results) = i + 1
          /\ i + 1 < targs.txCount
          /\ Len(noncesRead) = i + 1
    /\ targs.intervalMs > 0 => Len(noncesRead) <= sleeps + 1
    /\ (report.set /\ targs.intervalMs > 0) => sleeps = targs.txCount - 1

\* A run of three transactions with a delay of 100 ms has printed its
\* statistics after two sleeps.
C29_Witness ==
    /\ targs.txCount = 3 /\ targs.intervalMs = 100
    /\ report.set
    /\ Len(results) = 3
    /\ sleeps = 2

\* The options have been read and the required variables were there.
Configured == mainPc # "parse" /\ targs.missing = {}

\* The effective configuration is within its ranges.
ConfigInRange ==
    Configured =>
        /\ targs.txCount \in 1..10000
        /\ targs.intervalMs \in 0..60000
        /\ targs.pollIntervalMs \in 1..5000
        /\ targs.receiptTimeoutMs \in 1000..300000

\* A text that is no number, or a number that is not positive.
NotPositive(r) == r.k = "nan" \/ (r.k = "num" /\ r.t <= 0)

\* C30: whatever the options or environment variables hold, the
\* effective configuration is in range (count 1..10000, delay 0..60000,
\* poll interval 1..5000, receipt timeout 1000..300000), and a value that
\* is no number or not positive leaves the default 1, 0, 10 or 60000.
C30_InRangeAndDefaultKept ==
    /\ ConfigInRange
    /\ Configured =>
          /\ NotPositive(targs.raw.txCount) => targs.txCount = 1
          /\ NotPositive(targs.raw.intervalMs) => targs.intervalMs = 0
          /\ NotPositive(targs.raw.pollIntervalMs) => targs.pollIntervalMs = 10
          /\ NotPositive(targs.raw.receiptTimeoutMs) => targs.receiptTimeoutMs = 60000

\* The same for the cli variant alone.
CliDefaultKept ==
    targs.variant = "cli" => C30_InRangeAndDefaultKept

----------------------------------------------------------------------------
(* The single-transaction script *)

\* The script has neither options nor a receipt timeout: count 1, poll
\* interval 10 ms; the other fields of a configuration are not read.
LegacyPollInterval == 10
MaxLegacyPolls == 6     \* receipt lookups of a run of the script

LegacyConfig ==
    [variant |-> "legacy", txCount |-> 1, intervalMs |-> 0,
     pollIntervalMs |-> LegacyPollInterval, receiptTimeoutMs |-> 0,
     useSendTxnSync |-> FALSE]

\* A lookup answers at once or late, or the transport gives up after 30 s.
LegacyLookupDurations == {5, 150, 30000}

LegacyInit == now \in ClockStarts /\ StreamIdle /\ TimingStart({LegacyConfig})

\* main: submissionTime = new Date(), then walletClient.sendTransaction.
LegacyMainStart ==
    /\ mainPc = "start"
    /\ targs.variant = "legacy"
    /\ submittedAtMs' = now
    /\ mainPc' = "send"
    /\ UNCHANGED <<now, streamVars, targs, loopVars, logVars, chainVars, nonce,
                   startMs, elapsed, lastLookupMs, confirmedAtMs, initialBalance,
                   err, timingExit>>

\* walletClient.sendTransaction returns the hash and the polling starts
\* (pollingStartTime = Date.now()); or it throws: "Error sending
\* transaction", process.exit(1).
LegacySendDone(d) ==
    /\ mainPc = "send"
    /\ targs.variant = "legacy"
    /\ now' = now + d
    /\ \/ /\ submitted' = Append(submitted, chainPending)
          /\ chainPending' = chainPending + 1
          /\ transfers' = transfers + 1
          /\ startMs' = now'
          /\ mainPc' = "lookup"
          /\ UNCHANGED <<loopVars, err, timingExit>>
       \/ /\ Abort(Error("send", TRUE, 0))
          /\ UNCHANGED <<chainVars, startMs, submitted>>
    /\ UNCHANGED <<streamVars, targs, noncesRead, lookups, stillWaiting, warnings,
                   sleeps, submittedAtMs, nonce, elapsed, lastLookupMs,
                   confirmedAtMs, initialBalance>>

\* What the script prints once the receipt is there.
LegacyReport(confirmTime) ==
    [timeDiff |-> confirmTime - submittedAtMs,
     pollingTime |-> confirmTime - startMs,
     warn |-> confirmTime - startMs > 250]

\* LegacyLookupDone giving up once a minute of polling has passed.
LegacyLookupDoneWithTimeout(d) ==
    /\ mainPc = "lookup"
    /\ targs.variant = "legacy"
    /\ now' = now + d
    /\ lookups' = lookups + 1
    /\ lastLookupMs' = d
    /\ \/ /\ confirmedAtMs' = now'
          /\ report' = Some(LegacyReport(now'))
          /\ mainPc' = "exited"
          /\ timingExit' = Some(0)
          /\ UNCHANGED <<i, results, err>>
       \/ /\ IF now' - startMs > 60000
             THEN Abort(Error("timeout", TRUE, now' - startMs))
             ELSE /\ mainPc' = "pollSleep"
                  /\ UNCHANGED <<loopVars, err, timingExit>>
          /\ UNCHANGED confirmedAtMs
    /\ UNCHANGED <<streamVars, targs, noncesRead, submitted, stillWaiting, warnings,
                   sleeps, chainVars, submittedAtMs, nonce, startMs, elapsed,
                   initialBalance>>

\* flashblocksClient.getTransactionReceipt inside while (!receipt): the
\* receipt ends the loop, the confirmation is printed and main returns; a
\* throw (or no receipt) is swallowed and the script goes to sleep.
LegacyLookupDone(d) ==
    /\ mainPc = "lookup"
    /\ targs.variant = "legacy"
    /\ now' = now + d
    /\ lookups' = lookups + 1
    /\ lastLookupMs' = d
    /\ \/ /\ confirmedAtMs' = now'
          /\ report' = Some(LegacyReport(now'))
          /\ mainPc' = "exited"
          /\ timingExit' = Some(0)
          /\ UNCHANGED <<i, results, err>>
       \/ /\ mainPc' = "pollSleep"
          /\ UNCHANGED <<loopVars, err, timingExit, confirmedAtMs>>
    /\ UNCHANGED <<streamVars, targs, noncesRead, submitted, stillWaiting, warnings,
                   sleeps, chainVars, submittedAtMs, nonce, startMs, elapsed,
                   initialBalance>>

\* await new Promise(resolve => setTimeout(resolve, pollInterval))
LegacyPollSleepDone ==
    /\ mainPc = "pollSleep"
    /\ targs.variant = "legacy"
    /\ now' = now + LegacyPollInterval
    /\ mainPc' = "lookup"
    /\ UNCHANGED <<streamVars, targs, loopVars, logVars, chainVars, txVars,
                   initialBalance, err, timingExit>>

LegacyNext ==
    \/ LegacyMainStart
    \/ \E d \in SendDurations : LegacySendDone(d)
    \/ \E d \in LegacyLookupDurations : lookups < MaxLegacyPolls /\ LegacyLookupDone(d)
    \/ LegacyPollSleepDone

LegacySpec == LegacyInit /\ [][LegacyNext]_vars

\* C31: the single-transaction script polls for the receipt 10 ms after
\* every failed lookup and has no timeout: however long it has polled, a
\* failed lookup is followed by the sleep and the next lookup, and the
\* script ends or reports an error only with a receipt or a failed send.
C31_LegacyPollsWithoutTimeout ==
    /\ [](mainPc \in {"lookup", "pollSleep"} =>
            ~err.set /\ ~timingExit.set /\ ~report.set)
    /\ [](timingExit.set =>
            \/ report.set /\ timingExit.v = 0 /\ ~err.set
            \/ err.kind = "send" /\ lookups = 0 /\ timingExit.v = 1)
    /\ [][mainPc = "lookup" => (mainPc' = "pollSleep" \/ report'.set)]_vars
    /\ [][mainPc = "pollSleep" =>
            mainPc' = "lookup" /\ now' = now + LegacyPollInterval]_vars

\* The script is asleep after five failed lookups and two minutes of
\* polling, without an error.
C31_Witness ==
    /\ targs.variant = "legacy"
    /\ mainPc = "pollSleep"
    /\ lookups >= 5
    /\ now - startMs > 120000
    /\ ~err.set /\ ~timingExit.set

\* C32: once listen() has resolved, no inbound frame changes
\* framesReceived, payloadsReceived, the decode counters or a block
\* aggregate: the statistics of the summary are final.
C32_StatisticsFinalAfterResolve ==
    [][listenResolved => UNCHANGED statVars]_vars

\* The reader's accumulators before the first payload.
EmptyAggState ==
    [payloadsReceived |-> 0, payloadTimes |-> <<>>, blocksSeen |-> {},
     blockData |-> <<>>, handled |-> <<>>]

\* The block aggregates after the payloads ps arrived one by one.
AggregatesOf(ps) == handlePayloads(EmptyAggState, ps, now).blockData

\* The handled payloads in the order perm, and with two of them swapped.
Reordered(perm) == [k \in DOMAIN handled |-> handled[perm[k]]]
Swapped(j, k) ==
    [x \in DOMAIN handled |->
        IF x = j THEN handled[k] ELSE IF x = k THEN handled[j] ELSE handled[x]]

\* Every order of up to MaxPermuted payloads is tried.
MaxPermuted == 4
MaxOrderFrames == 3     \* frames delivered in a reordering run

\* The frames of the reordering runs: payloads of two blocks with
\* different gas totals, one without a block number, one whose gas is no
\* number, and a batch.
OrderFrames ==
    {TextFrame(p) : p \in {P1, P3, P4, P6, P10}}
    \cup {TextFrame(JArr(<<P3, P4, P1>>))}

\* Reordering: as aggregation, over the frames of OrderFrames in every
\* order.
OrderNext ==
    \/ RunStart
    \/ ConnectOpen
    \/ \E f \in OrderFrames : framesReceived < MaxOrderFrames /\ OnMessage(f)
    \/ WsClose
    \/ RunAfterListen

OrderSpec == AggInit /\ [][OrderNext]_vars

\* C33: the block aggregates depend on the multiset of payloads only:
\* whatever frames and batches brought them, the aggregates are those of
\* the payloads taken one by one, and the same payloads in any other order
\* give the same payloadCount, txCount and gasUsed for every block.
C33_AggregatesOrderIndependent ==
    /\ blockData = AggregatesOf(handled)
    /\ \A j, k \in DOMAIN handled : AggregatesOf(Swapped(j, k)) = blockData
    /\ Len(handled) <= MaxPermuted =>
          \A perm \in Permutations(DOMAIN handled) :
              AggregatesOf(Reordered(perm)) = blockData

\* A payload of block 101 came first, then two payloads of block 100 with
\* the larger gas total before the smaller one.
C33_Witness ==
    /\ handled = <<P4, P3, P1>>
    /\ blockData[100] = [payloadCount |-> 2, txCount |-> 5, gasUsed |-> Num(200)]
    /\ blockData[101].payloadCount = 1

\* The sum of the payloadCounts of the blocks in S.
RECURSIVE PayloadCountSum(_)
PayloadCountSum(S) ==
    IF S = {} THEN 0
    ELSE LET b == CHOOSE x \in S : TRUE
         IN  blockData[b].payloadCount + PayloadCountSum(S \ {b})

\* C34: in every state of the stream reader the distinct block numbers
\* are the keys of the block aggregates, every aggregate has a
\* payloadCount of at least 1, the payloadCounts add up to at most
\* payloadsReceived, to payloadsReceived exactly when every payload
\* carried a (numeric) block number, and there is one arrival timestamp
\* per payload.
C34_AggregateBookkeeping ==
    /\ blocksSeen = DOMAIN blockData
    /\ \A b \in DOMAIN blockData : blockData[b].payloadCount >= 1
    /\ PayloadCountSum(DOMAIN blockData) <= payloadsReceived
    /\ PayloadCountSum(DOMAIN blockData) = payloadsReceived
          <=> \A k \in DOMAIN handled : handled[k].bn.k = "num"
    /\ Len(payloadTimes) = payloadsReceived

\* Payloads of two blocks and one without a block number have arrived.
C34_Witness ==
    /\ payloadsReceived = 3
    /\ blocksSeen = {100, 101}
    /\ PayloadCountSum(DOMAIN blockData) = 2
    /\ \E k \in DOMAIN handled : handled[k].bn.k = "absent"

\* The frames the reader has decoded, by any method.
DecodeSum ==
    decodeCounts["utf8-json"] + decodeCounts["gzip"] + decodeCounts["zlib"]
      + decodeCounts["brotli"]

\* C35: the decode counters add up to at most framesReceived. A decoded
\* frame whose document holds no object (an empty array, null, false, 0,
\* a string, an array without objects) counts as decoded and yields no
\* payload, so payloadsReceived can be below the counters' sum; a decoded
\* batch yields one payload per object, so payloadsReceived can be above
\* framesReceived.
C35_CountersAndFrames ==
    /\ [](DecodeSum <= framesReceived)
    /\ [][\A f \in DecodeFrames :
            (ExpectedMethod(f) # "none" /\ OnMessage(f)) =>
                /\ framesReceived' = framesReceived + 1
                /\ DecodeSum' = DecodeSum + 1
                /\ payloadsReceived' =
                      payloadsReceived + Len(ObjectsOf(f.data.text.val))]_vars

\* Of three frames one was not decoded and two were, neither of them
\* holding a payload.
C35_Witness ==
    /\ framesReceived = 3
    /\ DecodeSum = 2
    /\ payloadsReceived = 0

\* C36: when the timing summary is printed there is one sample per
\* configured transaction, every transaction having been sent and
\* confirmed; p50, p90 and max are samples with min <= p50 <= p90 <= max;
\* and the p90 warning is printed exactly when p90 exceeds 250 ms.
C36_SummaryOfAllSamples ==
    report.set =>
        LET n == Len(Samples)
            S == {Samples[k] : k \in DOMAIN Samples}
        IN  /\ n = targs.txCount /\ n >= 1
            /\ report.v.sent = n
            /\ Len(submitted) = n /\ transfers = n
            /\ ~err.set
            /\ {report.v.p50, report.v.p90, report.v.max} \subseteq S
            /\ (CHOOSE x \in S : \A y \in S : x <= y) <= report.v.p50
            /\ report.v.p50 <= report.v.p90
            /\ report.v.p90 <= report.v.max
            /\ \A x \in S : x <= report.v.max
            /\ report.v.warn <=> report.v.p90 > 250

\* The summary of three samples was printed with the warning, the median
\* being within the target.
C36_Witness ==
    /\ report.set
    /\ targs.txCount = 3
    /\ report.v.warn
    /\ report.v.p50 <= 250
    /\ report.v.p90 > 250

\* C37: every inbound frame restarts the inactivity clock, also a frame
\* that is undecodable or holds no payload; the inactivity termination
\* happens only at a tick, with no payload received, at which the last
\* frame of any kind (or the start of listening, before the first frame)
\* lies at least the inactivity timeout back.
C37_EveryFrameRestartsInactivity ==
    /\ [][\A f \in SessionFrames : OnMessage(f) => lastMessageAt' = Some(now)]_vars
    /\ [][lastMessageAt' # lastMessageAt =>
            \/ framesReceived' = framesReceived + 1
            \/ runPc = "connecting" /\ lastMessageAt' = Some(startedAt')]_vars
    /\ [][(notices' # notices \/ (resolvedBy = "none" /\ resolvedBy' = "inactivity")) =>
            /\ notices' = notices + 1
            /\ payloadsReceived = 0
            /\ tick.set /\ now >= tick.v
            /\ now - lastMessageAt.v >= args.timeoutMs]_vars

\* Inactivity ended the run after an undecodable frame and a decoded
\* frame without payload had arrived, the timeout after the later one.
C37_Witness ==
    /\ resolvedBy = "inactivity"
    /\ framesReceived = 2
    /\ DecodeSum = 1
    /\ payloadsReceived = 0
    /\ lastMessageAt.v > startedAt
    /\ resolvedAt.v - lastMessageAt.v >= args.timeoutMs
    /\ resolvedAt.v - lastMessageAt.v < args.timeoutMs + TickMs

\* C38: in the tool that reads the balance back, a failure of the balance
\* query made after the transaction's confirmation ends the whole run:
\* the error reaches main as a failure to send the transaction, the
\* process exits with status 1, the confirmed transaction's sample is
\* lost and no statistics are printed.
C38_BalanceFailureAbortsAsSendFailure ==
    /\ [][(mainPc = "balance" /\ err'.set) =>
            /\ targs.variant = "cli"
            /\ err' = Error("balance", TRUE, 0)
            /\ transfers = Len(results) + 1
            /\ confirmedAtMs >= submittedAtMs
            /\ results' = results]_vars
    /\ [](err.kind = "balance" =>
            /\ err.wrapped
            /\ mainPc = "exited"
            /\ timingExit = Some(1)
            /\ ~report.set
            /\ Len(results) < targs.txCount)

\* The balance query of the second transaction failed after the first
\* transaction had been completed and the second confirmed.
C38_Witness ==
    /\ err.kind = "balance"
    /\ Len(results) = 1
    /\ transfers = 2
    /\ timingExit = Some(1)

====
